---- MODULE Spec2Model ----
(***************************************************************************)
(* Measurement-and-aggregation subsystem of optimum-benchmark:             *)
(*   - the statistic types Latency, Throughput, Energy, Efficiency and     *)
(*     their aggregate() rules (trackers/latency.py, trackers/energy.py);  *)
(*   - LatencyTracker (trackers/latency.py);                               *)
(*   - the torchrun launch-and-gather protocol (launchers/torchrun).       *)
(*                                                                         *)
(* Numbers are exact rationals <<n, d>> (d > 0, lowest terms); x ** 0.5 is *)
(* kept symbolic as [sqrt_of |-> x].  Floating point rounding is not       *)
(* modelled.  Python's None is the record None, a raised exception is the  *)
(* record Raise(exc, msg).                                                 *)
(***************************************************************************)
EXTENDS Integers, Sequences, FiniteSets, TLC

VARIABLES
    \* ---- statistic aggregation (one call of X.aggregate) ----
    aggKind,        \* which aggregate() is called
    aggInput,       \* its argument: a list of statistics / None
    aggResult,      \* Pending, or what the call returned / raised
    \* ---- LatencyTracker (one tracker object and its caller) ----
    device,         \* self.device
    backend,        \* self.backend
    distributed,    \* self.distributed
    start_events,   \* self.start_events
    end_events,     \* self.end_events
    start_time,     \* self.start_time
    clock,          \* time.perf_counter() of the host
    trackPc,        \* "idle", or "body" while the caller is inside `with track():`
    barrierCalls,   \* torch.distributed.barrier() calls made by this rank
    propagated,     \* exception the last track() region let through to its caller
    regions,        \* history: the regions entered since the last reset()
    latResult,      \* Pending, or what the last get_latency() returned / raised
    lastCall,       \* history: the method of the tracker called last
    latOps,         \* history: the clock, event and barrier operations of that call
    elapsed,        \* Pending, or what the last get_elapsed_time() returned
    \* ---- torchrun launcher (parent, isolated child, ranks, working directory) ----
    nproc_per_node, \* self.config.nproc_per_node
    files,          \* working directory: rank -> benchmark_report_rank_{rank}.json
    launches,       \* launch() calls started so far
    parentPc,       \* position of the parent inside launch()
    launchResult,   \* Pending, or what the last launch() returned / raised
    reports,        \* the list `reports` being built by the parent
    reads,          \* history: rank -> loads of its file by the parent in this launch
    writes,         \* history: rank -> writes of its file in this launch
    presentAtJoin,  \* history: ranks whose file existed when join() returned
    childState,     \* isolated process: "none", "started", "launched", "exited"
    exitcode,       \* isolated_process.exitcode once childState = "exited"
    rankPc,         \* rank -> position of that rank inside entrypoint()
    rankLog,        \* history: rank -> the entrypoint() steps it began in this launch
    \* ---- one call of a statistic constructor / operator ----
    statOp,         \* which function is called
    statArg,        \* its arguments
    statResult,     \* Pending, or what the call returned / raised
    \* ---- EnergyTracker (one tracker object, its sampler and its caller) ----
    enBackend,          \* EnergyTracker(backend=...)
    enDevice,           \* EnergyTracker(device=...)
    enDeviceIdsArg,     \* EnergyTracker(device_ids=...)
    enDistributed,      \* is_torch_distributed_available() and torch.distributed.is_initialized()
    codecarbonAvailable,\* is_codecarbon_available()
    onlineTrackerFails, \* EmissionsTracker(...) raises
    COUNTRY_ISO_CODE,   \* os.environ.get("COUNTRY_ISO_CODE", None)
    enPc,               \* "new", "idle", "body" inside `with track():`, "failed"
    enInitResult,       \* Pending, or what EnergyTracker(...) returned / raised
    device_ids,         \* self.device_ids
    emission_tracker,   \* self.emission_tracker
    total_energy,       \* self.total_energy
    cpu_energy,         \* self.cpu_energy
    gpu_energy,         \* self.gpu_energy
    ram_energy,         \* self.ram_energy
    enFilePrefix,       \* file_prefix of the region being tracked
    artifacts,          \* working directory: file_prefix -> {file_prefix}_codecarbon.json
    enSteps,            \* history: what the last track() region did, in order
    samplerCalls,       \* history: start_task / stop_task calls received by the sampler
    enCompleted,        \* history: emissions records of the regions that completed
    enEntered,          \* history: number of regions entered
    enPropagated,       \* exception the last track() region let through to its caller
    energyResult,       \* Pending, or what the last get_energy() returned / raised
    \* ---- run_experiment (one run of the CLI entry point) ----
    expRaising,     \* call site -> "none", or the kind of exception the call raises
    expPc,          \* position inside run_experiment()
    expLog,         \* history: the calls made so far, in order
    expResult,      \* Pending, None once run_experiment() returned, or the exception in flight
    cliExit,        \* None, or the exit code of the CLI process
    \* ---- LatencyTracker.track() on every rank of one run ----
    world_size,     \* number of rank processes of the run
    initialized,    \* torch.distributed.is_initialized(): self.distributed of every tracker
    numRegions,     \* track() regions each rank executes
    trkPc,          \* rank -> "idle", "entry_barrier", "body", "exit_barrier"
    arrived,        \* rank -> torch.distributed.barrier() calls made by the rank
    entered,        \* history: rank -> track() regions the rank has entered
    numStarts,      \* rank -> len(self.start_events) of the rank's tracker
    numEnds,        \* rank -> len(self.end_events) of the rank's tracker
    numRaised,      \* history: rank -> regions of the rank whose body raised
    \* ---- step-wise collectors (one LatencyTrainerCallback or LatencyLogitsProcessor) ----
    colClass,       \* the class of the collector
    colDevice,      \* self.device
    colBackend,     \* self.backend
    events,         \* self.events
    colClock,       \* time.perf_counter() of the host
    colCalls,       \* history: reset() / __init__, then the marker-taking calls since
    colResult,      \* Pending, or what the last get_latency() returned / raised
    \* ---- fast_weights_init (backends/transformers_utils.py) ----
    nn_init,        \* the attributes of the module torch.nn.init, by name
    fwPc,           \* "outside" or "inside" the with-block of fast_weights_init()
    fwScopes,       \* how many times the scope was entered
    fwCalls,        \* history: the calls torch.nn.init.<name>(tensor) made so far
    fwPropagated    \* the exception that left the last scope, or None

aggVars == <<aggKind, aggInput, aggResult>>
latVars == <<device, backend, distributed, start_events, end_events, start_time, clock,
             trackPc, barrierCalls, propagated, regions, latResult, lastCall, latOps,
             elapsed>>
launchVars == <<nproc_per_node, files, launches, parentPc, launchResult, reports, reads,
                writes, presentAtJoin, childState, exitcode, rankPc, rankLog>>
statVars == <<statOp, statArg, statResult>>
energyVars == <<enBackend, enDevice, enDeviceIdsArg, enDistributed, codecarbonAvailable,
                onlineTrackerFails, COUNTRY_ISO_CODE, enPc, enInitResult, device_ids,
                emission_tracker, total_energy, cpu_energy, gpu_energy, ram_energy,
                enFilePrefix, artifacts, enSteps, samplerCalls, enCompleted, enEntered,
                enPropagated, energyResult>>
expVars == <<expRaising, expPc, expLog, expResult, cliExit>>
barrierVars == <<world_size, initialized, numRegions, trkPc, arrived, entered, numStarts,
                 numEnds, numRaised>>
colVars == <<colClass, colDevice, colBackend, events, colClock, colCalls, colResult>>
fwVars == <<nn_init, fwPc, fwScopes, fwCalls, fwPropagated>>
vars == <<aggVars, latVars, launchVars, statVars, energyVars, expVars, barrierVars, colVars, fwVars>>

\* what the actions of one part leave alone
notAgg == <<latVars, launchVars, statVars, energyVars, expVars, barrierVars, colVars, fwVars>>
notLat == <<aggVars, launchVars, statVars, energyVars, expVars, barrierVars, colVars, fwVars>>
notLaunch == <<aggVars, latVars, statVars, energyVars, expVars, barrierVars, colVars, fwVars>>
notStat == <<aggVars, latVars, launchVars, energyVars, expVars, barrierVars, colVars, fwVars>>
notEnergy == <<aggVars, latVars, launchVars, statVars, expVars, barrierVars, colVars, fwVars>>
notExp == <<aggVars, latVars, launchVars, statVars, energyVars, barrierVars, colVars, fwVars>>
notBarrier == <<aggVars, latVars, launchVars, statVars, energyVars, expVars, colVars, fwVars>>
notCol == <<aggVars, latVars, launchVars, statVars, energyVars, expVars, barrierVars, fwVars>>
notFw == <<aggVars, latVars, launchVars, statVars, energyVars, expVars, barrierVars, colVars>>

-----------------------------------------------------------------------------
(* Bounds of the model *)

\* longest list handed to an aggregate() (the number of rank reports)
MaxRanks == 2
\* most samples held by one Latency
MaxSamples == 2
\* largest sample / component / rate value
MaxVal == 2
\* most track() regions entered between two reset() calls
MaxRegions == 3
\* longest time a region's body takes, in clock ticks of one second
MaxBody == 2
\* the host clock is followed up to this time
MaxClock == 5
\* most launch() calls made in one working directory
MaxLaunches == 2
\* track() regions entered on one EnergyTracker
MaxEnergyRegions == 2
\* most calls of one run_experiment() that raise
MaxFaults == 2
\* most track() regions each rank of a multi-rank run executes
MaxRankRegions == 2
\* how many times the scope of fast_weights_init is entered
MaxScopes == 2

-----------------------------------------------------------------------------
(* Python values *)

None == [type |-> "None"]
Raise(exc, msg) == [type |-> "raise", exc |-> exc, msg |-> msg]
Pending == [type |-> "pending"]

IsNone(x) == x.type = "None"
IsRaise(x) == x.type = "raise"

-----------------------------------------------------------------------------
(* Exact arithmetic *)

Abs(n) == IF n < 0 THEN -n ELSE n

RECURSIVE Gcd(_, _)
Gcd(a, b) == IF b = 0 THEN a ELSE Gcd(b, a % b)

\* the rational n/d in lowest terms with a positive denominator (d # 0)
Rat(n, d) ==
    LET g == Gcd(Abs(n), Abs(d))
        s == IF d < 0 THEN -1 ELSE 1
    IN  <<(s * n) \div g, (s * d) \div g>>

Zero == <<0, 1>>
RatAdd(x, y) == Rat(x[1] * y[2] + y[1] * x[2], x[2] * y[2])
RatSub(x, y) == Rat(x[1] * y[2] - y[1] * x[2], x[2] * y[2])
RatMul(x, y) == Rat(x[1] * y[1], x[2] * y[2])
\* x / y, y # 0
RatDiv(x, y) == Rat(x[1] * y[2], x[2] * y[1])
RatLt(x, y) == x[1] * y[2] < y[1] * x[2]

\* x ** 0.5, symbolic
PowHalf(x) == [sqrt_of |-> x]

\* sum(values) for a list of rationals (Python starts from 0)
RECURSIVE SumSeq(_)
SumSeq(s) == IF s = <<>> THEN Zero ELSE RatAdd(SumSeq(SubSeq(s, 1, Len(s) - 1)), s[Len(s)])

\* max(values) for a non-empty list of rationals
RECURSIVE MaxSeq(_)
MaxSeq(s) ==
    IF Len(s) = 1 THEN s[1]
    ELSE LET m == MaxSeq(SubSeq(s, 1, Len(s) - 1))
         IN  IF RatLt(m, s[Len(s)]) THEN s[Len(s)] ELSE m

\* sum(lists, []) : concatenation in list order
RECURSIVE ConcatAll(_)
ConcatAll(ss) == IF ss = <<>> THEN <<>> ELSE ConcatAll(SubSeq(ss, 1, Len(ss) - 1)) \o ss[Len(ss)]

\* all sequences over S of length 0..n
SeqsUpTo(S, n) == UNION {[1..k -> S] : k \in 0..n}

-----------------------------------------------------------------------------
(* Latency, Throughput (trackers/latency.py) *)

LATENCY_UNIT == "s"

Latency(unit, mean, stdev, values) ==
    [type |-> "Latency", unit |-> unit, mean |-> mean, stdev |-> stdev, values |-> values]

\* a plausible slip: the sample (n - 1) standard deviation
Latency_from_values_SampleStdev(values, unit) ==
    LET n == Rat(Len(values), 1)
        mean == IF Len(values) > 0 THEN RatDiv(SumSeq(values), n) ELSE Zero
        sq == [i \in 1..Len(values) |->
                  RatMul(RatSub(values[i], mean), RatSub(values[i], mean))]
        stdev == IF Len(values) > 1
                 THEN PowHalf(RatDiv(SumSeq(sq), Rat(Len(values) - 1, 1)))
                 ELSE PowHalf(Zero)
    IN  Latency(unit, mean, stdev, values)

Latency_from_values(values, unit) ==
    LET n == Rat(Len(values), 1)
        mean == IF Len(values) > 0 THEN RatDiv(SumSeq(values), n) ELSE Zero
        sq == [i \in 1..Len(values) |->
                  RatMul(RatSub(values[i], mean), RatSub(values[i], mean))]
        stdev == IF Len(values) > 1 THEN PowHalf(RatDiv(SumSeq(sq), n)) ELSE PowHalf(Zero)
    IN  Latency(unit, mean, stdev, values)

\* a plausible slip: the means of the inputs are merged and the input
\* statistics of the first rank are kept
Latency_aggregate_MergeMeans(latencies) ==
    IF Len(latencies) = 0 \/ \A i \in 1..Len(latencies) : IsNone(latencies[i])
    THEN None
    ELSE IF \E i \in 1..Len(latencies) : IsNone(latencies[i])
    THEN Raise("ValueError", "Some latency measurements are missing")
    ELSE LET means == [i \in 1..Len(latencies) |-> latencies[i].mean]
         IN  Latency(latencies[1].unit,
                     RatDiv(SumSeq(means), Rat(Len(latencies), 1)),
                     latencies[1].stdev,
                     ConcatAll([i \in 1..Len(latencies) |-> latencies[i].values]))

Latency_aggregate(latencies) ==
    IF Len(latencies) = 0 \/ \A i \in 1..Len(latencies) : IsNone(latencies[i])
    THEN None
    ELSE IF \E i \in 1..Len(latencies) : IsNone(latencies[i])
    THEN Raise("ValueError", "Some latency measurements are missing")
    ELSE LET unit == latencies[1].unit
             values == ConcatAll([i \in 1..Len(latencies) |-> latencies[i].values])
         IN  Latency_from_values(values, unit)

Throughput(unit, value) == [type |-> "Throughput", unit |-> unit, value |-> value]

\* a plausible slip: the empty list is treated as for Latency
Throughput_aggregate_EmptyIsNone(throughputs) ==
    IF Len(throughputs) = 0 \/ \A i \in 1..Len(throughputs) : IsNone(throughputs[i])
    THEN None
    ELSE IF \E i \in 1..Len(throughputs) : IsNone(throughputs[i])
    THEN Raise("ValueError", "Some throughput measurements are missing")
    ELSE Throughput(throughputs[1].unit,
                    SumSeq([i \in 1..Len(throughputs) |-> throughputs[i].value]))

\* a plausible slip: the rates are averaged like Efficiency
Throughput_aggregate_Mean(throughputs) ==
    IF Len(throughputs) = 0
    THEN Raise("ValueError", "No throughput measurements to aggregate")
    ELSE IF \E i \in 1..Len(throughputs) : IsNone(throughputs[i])
    THEN Raise("ValueError", "Some throughput measurements are missing")
    ELSE Throughput(throughputs[1].unit,
                    RatDiv(SumSeq([i \in 1..Len(throughputs) |-> throughputs[i].value]),
                           Rat(Len(throughputs), 1)))

Throughput_aggregate(throughputs) ==
    IF Len(throughputs) = 0
    THEN Raise("ValueError", "No throughput measurements to aggregate")
    ELSE IF \E i \in 1..Len(throughputs) : IsNone(throughputs[i])
    THEN Raise("ValueError", "Some throughput measurements are missing")
    ELSE LET unit == throughputs[1].unit
             value == SumSeq([i \in 1..Len(throughputs) |-> throughputs[i].value])
         IN  Throughput(unit, value)

-----------------------------------------------------------------------------
(* Energy, Efficiency (trackers/energy.py) *)

ENERGY_UNIT == "kWh"

Energy(unit, cpu, ram, gpu, total) ==
    [type |-> "Energy", unit |-> unit, cpu |-> cpu, ram |-> ram, gpu |-> gpu, total |-> total]

\* a plausible slip: missing measurements are skipped instead of rejected
Energy_aggregate_SkipMissing(energies) ==
    LET present == SelectSeq(energies, LAMBDA e : ~IsNone(e))
    IN  IF Len(present) = 0
        THEN None
        ELSE Energy(ENERGY_UNIT,
                    MaxSeq([i \in 1..Len(present) |-> present[i].cpu]),
                    MaxSeq([i \in 1..Len(present) |-> present[i].ram]),
                    MaxSeq([i \in 1..Len(present) |-> present[i].gpu]),
                    MaxSeq([i \in 1..Len(present) |-> present[i].total]))

\* a plausible slip: the components are summed over the ranks
Energy_aggregate_Sum(energies) ==
    IF Len(energies) = 0 \/ \A i \in 1..Len(energies) : IsNone(energies[i])
    THEN None
    ELSE IF \E i \in 1..Len(energies) : IsNone(energies[i])
    THEN Raise("ValueError", "Some energy measurements are missing")
    ELSE Energy(ENERGY_UNIT,
                SumSeq([i \in 1..Len(energies) |-> energies[i].cpu]),
                SumSeq([i \in 1..Len(energies) |-> energies[i].ram]),
                SumSeq([i \in 1..Len(energies) |-> energies[i].gpu]),
                SumSeq([i \in 1..Len(energies) |-> energies[i].total]))

Energy_aggregate(energies) ==
    IF Len(energies) = 0 \/ \A i \in 1..Len(energies) : IsNone(energies[i])
    THEN None
    ELSE IF \E i \in 1..Len(energies) : IsNone(energies[i])
    THEN Raise("ValueError", "Some energy measurements are missing")
    ELSE LET cpu == MaxSeq([i \in 1..Len(energies) |-> energies[i].cpu])
             gpu == MaxSeq([i \in 1..Len(energies) |-> energies[i].gpu])
             ram == MaxSeq([i \in 1..Len(energies) |-> energies[i].ram])
             total == MaxSeq([i \in 1..Len(energies) |-> energies[i].total])
         IN  Energy(ENERGY_UNIT, cpu, ram, gpu, total)

Efficiency(unit, value) == [type |-> "Efficiency", unit |-> unit, value |-> value]

\* a plausible slip: the values are summed like Throughput
Efficiency_aggregate_Sum(efficiencies) ==
    IF Len(efficiencies) = 0
    THEN Raise("ValueError", "No efficiency measurements to aggregate")
    ELSE IF \E i \in 1..Len(efficiencies) : IsNone(efficiencies[i])
    THEN Raise("ValueError", "Some efficiency measurements are None")
    ELSE Efficiency(efficiencies[1].unit,
                    SumSeq([i \in 1..Len(efficiencies) |-> efficiencies[i].value]))

Efficiency_aggregate(efficiencies) ==
    IF Len(efficiencies) = 0
    THEN Raise("ValueError", "No efficiency measurements to aggregate")
    ELSE IF \E i \in 1..Len(efficiencies) : IsNone(efficiencies[i])
    THEN Raise("ValueError", "Some efficiency measurements are None")
    ELSE LET unit == efficiencies[1].unit
             value == RatDiv(SumSeq([i \in 1..Len(efficiencies) |-> efficiencies[i].value]),
                             Rat(Len(efficiencies), 1))
         IN  Efficiency(unit, value)

-----------------------------------------------------------------------------
(* Inputs of the aggregation calls *)

Vals == {Rat(k, 1) : k \in 1..MaxVal}

ThroughputUnits == {"samples/s", "tokens/s"}
EfficiencyUnits == {"samples/kWh", "tokens/kWh"}

\* every Latency the program builds comes from Latency.from_values
Latencies == {Latency_from_values(v, LATENCY_UNIT) : v \in SeqsUpTo(Vals, MaxSamples)}
Throughputs == {Throughput(u, v) : u \in ThroughputUnits, v \in Vals}
Energies == {Energy(ENERGY_UNIT, c, r, g, t) : c \in Vals, r \in Vals, g \in Vals, t \in Vals}
Efficiencies == {Efficiency(u, v) : u \in EfficiencyUnits, v \in Vals}

AggKinds == {"Latency", "Throughput", "Energy", "Efficiency"}

AggInputs(kind) ==
    CASE kind = "Latency" -> SeqsUpTo(Latencies \cup {None}, MaxRanks)
      [] kind = "Throughput" -> SeqsUpTo(Throughputs \cup {None}, MaxRanks)
      [] kind = "Energy" -> SeqsUpTo(Energies \cup {None}, MaxRanks)
      [] kind = "Efficiency" -> SeqsUpTo(Efficiencies \cup {None}, MaxRanks)

\* no aggregate() call is made
AggIdle ==
    /\ aggKind = "Latency"
    /\ aggInput = <<>>
    /\ aggResult = Pending

\* a tracker that is constructed and never used
LatIdle ==
    /\ device = "cpu" /\ backend = "pytorch" /\ distributed = FALSE
    /\ start_events = <<>> /\ end_events = <<>> /\ start_time = 0
    /\ clock = 0 /\ trackPc = "idle" /\ barrierCalls = 0
    /\ propagated = None /\ regions = <<>> /\ latResult = Pending
    /\ lastCall = "__init__" /\ latOps = <<>> /\ elapsed = Pending

\* the rank report file of a rank that never wrote one
NoFile == [exists |-> FALSE, launch |-> 0, rank |-> 0]

\* a launcher that is constructed and never used
LaunchIdle ==
    /\ nproc_per_node = 1
    /\ files = [r \in {0} |-> NoFile]
    /\ launches = 0 /\ parentPc = "idle" /\ launchResult = Pending /\ reports = <<>>
    /\ reads = [r \in {0} |-> 0] /\ writes = [r \in {0} |-> 0] /\ presentAtJoin = {}
    /\ childState = "none" /\ exitcode = 0
    /\ rankPc = [r \in {0} |-> "none"]
    /\ rankLog = [r \in {0} |-> <<>>]

\* no statistic operator is called
StatIdle ==
    /\ statOp = "none"
    /\ statArg = None
    /\ statResult = Pending

\* no energy tracker is constructed
EnergyIdle ==
    /\ enBackend = "pytorch" /\ enDevice = "cpu" /\ enDeviceIdsArg = None
    /\ enDistributed = FALSE /\ codecarbonAvailable = TRUE /\ onlineTrackerFails = FALSE
    /\ COUNTRY_ISO_CODE = None
    /\ enPc = "new" /\ enInitResult = Pending
    /\ device_ids = None /\ emission_tracker = None
    /\ total_energy = None /\ cpu_energy = None /\ gpu_energy = None /\ ram_energy = None
    /\ enFilePrefix = "task" /\ artifacts = [f \in {"task", "forward"} |-> None]
    /\ enSteps = <<>> /\ samplerCalls = <<>> /\ enCompleted = <<>> /\ enEntered = 0
    /\ enPropagated = None /\ energyResult = Pending

\* run_experiment is not called
ExperimentIdle ==
    /\ expRaising = [c \in {"none"} |-> "none"]
    /\ expPc = "none" /\ expLog = <<>> /\ expResult = Pending /\ cliExit = None

\* no multi-rank run
BarrierIdle ==
    /\ world_size = 1 /\ initialized = FALSE /\ numRegions = 0
    /\ trkPc = [r \in {0} |-> "idle"]
    /\ arrived = [r \in {0} |-> 0] /\ entered = [r \in {0} |-> 0]
    /\ numStarts = [r \in {0} |-> 0] /\ numEnds = [r \in {0} |-> 0]
    /\ numRaised = [r \in {0} |-> 0]

\* no step-wise collector is constructed
CollectorIdle ==
    /\ colClass = "none" /\ colDevice = "cpu" /\ colBackend = "pytorch"
    /\ events = <<>> /\ colClock = 0 /\ colCalls = <<>> /\ colResult = Pending

\* fast_weights_init is not used
FastInitIdle ==
    /\ nn_init = <<>> /\ fwPc = "outside" /\ fwScopes = 0
    /\ fwCalls = <<>> /\ fwPropagated = None

AggInit ==
    /\ aggKind \in AggKinds
    /\ aggInput \in AggInputs(aggKind)
    /\ aggResult = Pending
    /\ LatIdle
    /\ LaunchIdle
    /\ StatIdle
    /\ EnergyIdle
    /\ ExperimentIdle
    /\ BarrierIdle
    /\ CollectorIdle
    /\ FastInitIdle

CallLatencyAggregate ==
    /\ aggKind = "Latency" /\ aggResult = Pending
    /\ aggResult' = Latency_aggregate(aggInput)
    /\ UNCHANGED <<aggKind, aggInput, notAgg>>

CallThroughputAggregate ==
    /\ aggKind = "Throughput" /\ aggResult = Pending
    /\ aggResult' = Throughput_aggregate(aggInput)
    /\ UNCHANGED <<aggKind, aggInput, notAgg>>

CallEnergyAggregate ==
    /\ aggKind = "Energy" /\ aggResult = Pending
    /\ aggResult' = Energy_aggregate(aggInput)
    /\ UNCHANGED <<aggKind, aggInput, notAgg>>

CallEfficiencyAggregate ==
    /\ aggKind = "Efficiency" /\ aggResult = Pending
    /\ aggResult' = Efficiency_aggregate(aggInput)
    /\ UNCHANGED <<aggKind, aggInput, notAgg>>

AggNext ==
    \/ CallLatencyAggregate
    \/ CallThroughputAggregate
    \/ CallEnergyAggregate
    \/ CallEfficiencyAggregate

SpecAgg == AggInit /\ [][AggNext]_vars

-----------------------------------------------------------------------------
(* LatencyTracker (trackers/latency.py) *)

Devices == {"cpu", "cuda"}
Backends == {"pytorch", "onnxruntime"}
\* what the body of a region may raise
BodyExceptions == {"RuntimeError", "KeyboardInterrupt"}

\* self.backend == "pytorch" and self.device == "cuda"
IsCudaEventPath == backend = "pytorch" /\ device = "cuda"

\* a time marker taken at host time t: a recorded torch.cuda.Event on the
\* asynchronous path, the float time.perf_counter() otherwise
Marker(t) == [kind |-> IF IsCudaEventPath THEN "cuda_event" ELSE "perf_counter", t |-> t]

\* start.elapsed_time(end): milliseconds between two recorded events
elapsed_time(start, end) == RatMul(Rat(1000, 1), Rat(end.t - start.t, 1))

\* one operation of a call on the clock, on an event of a marker list or on
\* the process group
Op(op, list, index) == [op |-> op, list |-> list, index |-> index]

\* recording a marker: a cuda event is created and recorded, no synchronize;
\* otherwise the host clock is read
MarkerOp(list, index) ==
    IF IsCudaEventPath THEN Op("record", list, index) ELSE Op("perf_counter", list, index)

\* the barrier call of track(), if it makes one
BarrierOp == IF distributed THEN <<Op("barrier", "", 0)>> ELSE <<>>

\* torch.distributed.barrier(), made only when self.distributed
Barrier == barrierCalls' = IF distributed THEN barrierCalls + 1 ELSE barrierCalls

\* __init__: stores device and backend and calls reset()
LatInit ==
    /\ device \in Devices /\ backend \in Backends /\ distributed \in BOOLEAN
    /\ start_events = <<>> /\ end_events = <<>> /\ start_time = 0
    /\ clock = 0 /\ trackPc = "idle" /\ barrierCalls = 0
    /\ propagated = None /\ regions = <<>> /\ latResult = Pending
    /\ lastCall = "__init__" /\ latOps = <<>> /\ elapsed = Pending
    /\ AggIdle
    /\ LaunchIdle
    /\ StatIdle
    /\ EnergyIdle
    /\ ExperimentIdle
    /\ BarrierIdle
    /\ CollectorIdle
    /\ FastInitIdle

LatencyTracker_reset ==
    /\ trackPc = "idle"
    /\ start_events' = <<>>
    /\ end_events' = <<>>
    /\ start_time' = clock
    /\ regions' = <<>>
    /\ latResult' = Pending
    /\ lastCall' = "reset"
    /\ latOps' = <<Op("perf_counter", "", 0)>>
    /\ elapsed' = Pending
    /\ UNCHANGED <<device, backend, distributed, clock, trackPc, barrierCalls, propagated, notLat>>

\* track() up to its yield: barrier, then the start marker
LatencyTracker_track_enter ==
    /\ trackPc = "idle"
    /\ Len(start_events) < MaxRegions
    /\ clock < MaxClock
    /\ Barrier
    /\ start_events' = Append(start_events, Marker(clock))
    /\ regions' = Append(regions, [outcome |-> "open", exc |-> "", start |-> clock, end |-> clock])
    /\ trackPc' = "body"
    /\ latResult' = Pending
    /\ lastCall' = "track"
    /\ latOps' = BarrierOp \o <<MarkerOp("start_events", Len(start_events) + 1)>>
    /\ elapsed' = Pending
    /\ UNCHANGED <<device, backend, distributed, end_events, start_time, clock, propagated, notLat>>

\* the body returns after d seconds; track() resumes after its yield: the end
\* marker, then the barrier
LatencyTracker_track_exit ==
    /\ trackPc = "body"
    /\ \E d \in 1..MaxBody :
        /\ clock + d <= MaxClock
        /\ clock' = clock + d
        /\ end_events' = Append(end_events, Marker(clock + d))
        /\ regions' = [regions EXCEPT ![Len(regions)].outcome = "completed",
                                      ![Len(regions)].end = clock + d]
    /\ Barrier
    /\ trackPc' = "idle"
    /\ propagated' = None
    /\ latResult' = Pending
    /\ lastCall' = "track"
    /\ latOps' = <<MarkerOp("end_events", Len(end_events) + 1)>> \o BarrierOp
    /\ elapsed' = Pending
    /\ UNCHANGED <<device, backend, distributed, start_events, start_time, notLat>>

\* the body raises e after d seconds: the exception is thrown into the generator
\* at its yield, nothing catches it, the code after the yield does not run
LatencyTracker_track_raise ==
    /\ trackPc = "body"
    /\ \E d \in 1..MaxBody, e \in BodyExceptions :
        /\ clock + d <= MaxClock
        /\ clock' = clock + d
        /\ regions' = [regions EXCEPT ![Len(regions)].outcome = "raised",
                                      ![Len(regions)].exc = e,
                                      ![Len(regions)].end = clock + d]
        /\ propagated' = Raise(e, "body")
    /\ trackPc' = "idle"
    /\ latResult' = Pending
    /\ lastCall' = "track"
    /\ latOps' = <<>>
    /\ elapsed' = Pending
    /\ UNCHANGED <<device, backend, distributed, start_events, end_events, start_time,
                   barrierCalls, notLat>>

IndexError == Raise("IndexError", "list index out of range")

\* get_latency(): what it returns or raises for the markers held
LatencyTracker_get_latency ==
    IF IsCudaEventPath
    THEN IF Len(start_events) = 0 \/ Len(end_events) = 0
         THEN IndexError    \* self.start_events[-1] / self.end_events[-1]
         ELSE IF \E i \in 1..Len(start_events) : i > Len(end_events)
         THEN IndexError    \* self.end_events[i]
         ELSE Latency_from_values(
                  [i \in 1..Len(start_events) |->
                      RatDiv(elapsed_time(start_events[i], end_events[i]), Rat(1000, 1))],
                  LATENCY_UNIT)
    ELSE IF \E i \in 1..Len(start_events) : i > Len(end_events)
         THEN IndexError    \* self.end_events[i]
         ELSE Latency_from_values(
                  [i \in 1..Len(start_events) |-> Rat(end_events[i].t - start_events[i].t, 1)],
                  LATENCY_UNIT)

\* a plausible slip: the elapsed times are read without a synchronize
LatencyTracker_get_latency_ops_NoSynchronize ==
    IF IsCudaEventPath /\ start_events # <<>> /\ end_events # <<>>
    THEN [i \in 1..(IF Len(start_events) < Len(end_events) THEN Len(start_events)
                    ELSE Len(end_events)) |-> Op("elapsed_time", "start_events", i)]
    ELSE <<>>

\* get_latency(): the event operations it makes, up to its return or to the
\* IndexError: synchronize on start_events[-1] and end_events[-1], then one
\* elapsed_time per pair of markers; none on the host-timestamp path
LatencyTracker_get_latency_ops ==
    IF ~IsCudaEventPath \/ start_events = <<>>
    THEN <<>>
    ELSE IF end_events = <<>>
    THEN <<Op("synchronize", "start_events", Len(start_events))>>
    ELSE <<Op("synchronize", "start_events", Len(start_events)),
           Op("synchronize", "end_events", Len(end_events))>>
         \o [i \in 1..(IF Len(start_events) < Len(end_events) THEN Len(start_events)
                        ELSE Len(end_events)) |-> Op("elapsed_time", "start_events", i)]

CallGetLatency ==
    /\ trackPc = "idle"
    /\ latResult' = LatencyTracker_get_latency
    /\ lastCall' = "get_latency"
    /\ latOps' = LatencyTracker_get_latency_ops
    /\ elapsed' = Pending
    /\ UNCHANGED <<device, backend, distributed, start_events, end_events, start_time, clock,
                   trackPc, barrierCalls, propagated, regions, notLat>>

\* get_elapsed_time(): host time since construction or the last reset()
LatencyTracker_get_elapsed_time == Rat(clock - start_time, 1)

CallGetElapsedTime ==
    /\ trackPc = "idle"
    /\ elapsed' = LatencyTracker_get_elapsed_time
    /\ lastCall' = "get_elapsed_time"
    /\ latOps' = <<Op("perf_counter", "", 0)>>
    /\ UNCHANGED <<device, backend, distributed, start_events, end_events, start_time, clock,
                   trackPc, barrierCalls, propagated, regions, latResult, notLat>>

LatNext ==
    \/ LatencyTracker_reset
    \/ LatencyTracker_track_enter
    \/ LatencyTracker_track_exit
    \/ LatencyTracker_track_raise
    \/ CallGetLatency
    \/ CallGetElapsedTime

SpecLatency == LatInit /\ [][LatNext]_vars

-----------------------------------------------------------------------------
(* torchrun launcher (launchers/torchrun/launcher.py) *)

\* range(self.config.nproc_per_node)
Ranks == 0..(nproc_per_node - 1)

\* the file written by `rank` during launch number `launch`
ReportFile(launch, rank) == [exists |-> TRUE, launch |-> launch, rank |-> rank]

\* BenchmarkReport.from_json(f"benchmark_report_rank_{rank}.json"): the report a
\* file holds is identified by who wrote the file
BenchmarkReport_from_json(rank) == [launch |-> files[rank].launch, rank |-> files[rank].rank]

\* BenchmarkReport.aggregate(reports): the consolidated report, identified by
\* the reports it was built from
BenchmarkReport_aggregate(rs) == [type |-> "BenchmarkReport", aggregated |-> rs]

\* a plausible slip: any() in place of all()
SomeRankFileExists == \E rank \in Ranks : files[rank].exists

\* all(os.path.isfile(f"benchmark_report_rank_{rank}.json") for rank in range(nproc_per_node))
AllRankFilesExist == \A rank \in Ranks : files[rank].exists

LaunchInit ==
    /\ nproc_per_node \in 1..MaxRanks
    /\ files = [r \in Ranks |-> NoFile]
    /\ launches = 0 /\ parentPc = "idle" /\ launchResult = Pending /\ reports = <<>>
    /\ reads = [r \in Ranks |-> 0] /\ writes = [r \in Ranks |-> 0] /\ presentAtJoin = {}
    /\ childState = "none" /\ exitcode = 0
    /\ rankPc = [r \in Ranks |-> "none"]
    /\ rankLog = [r \in Ranks |-> <<>>]
    /\ AggIdle
    /\ LatIdle
    /\ StatIdle
    /\ EnergyIdle
    /\ ExperimentIdle
    /\ BarrierIdle
    /\ CollectorIdle
    /\ FastInitIdle

\* launch(), lines 46-55: the isolated process is created and started
TorchrunLauncher_launch_start ==
    /\ parentPc = "idle"
    /\ launches < MaxLaunches
    /\ launches' = launches + 1
    /\ childState' = "started"
    /\ rankPc' = [r \in Ranks |-> "none"]
    /\ rankLog' = [r \in Ranks |-> <<>>]
    /\ parentPc' = "join"
    /\ launchResult' = Pending
    /\ reports' = <<>>
    /\ reads' = [r \in Ranks |-> 0]
    /\ writes' = [r \in Ranks |-> 0]
    /\ presentAtJoin' = {}
    /\ UNCHANGED <<nproc_per_node, files, exitcode, notLaunch>>

\* target(), lines 83-90: the elastic launcher starts one process per rank
target_elastic_launch ==
    /\ childState = "started"
    /\ childState' = "launched"
    /\ rankPc' = [r \in Ranks |-> "init_process_group"]
    /\ UNCHANGED <<nproc_per_node, files, launches, parentPc, launchResult, reports, reads,
                   writes, presentAtJoin, exitcode, rankLog, notLaunch>>

RankStep(rank, from, to) ==
    /\ childState = "launched"
    /\ rankPc[rank] = from
    /\ rankPc' = [rankPc EXCEPT ![rank] = to]
    /\ rankLog' = [rankLog EXCEPT ![rank] = Append(@, from)]

RankFrame ==
    UNCHANGED <<nproc_per_node, launches, parentPc, launchResult, reports, reads,
                presentAtJoin, childState, exitcode, notLaunch>>

\* entrypoint(), lines 98-110
entrypoint_init_process_group ==
    \E rank \in Ranks :
        /\ RankStep(rank, "init_process_group", "worker")
        /\ UNCHANGED <<files, writes>>
        /\ RankFrame

\* entrypoint(), line 112: the worker returns a report
entrypoint_worker_returns ==
    \E rank \in Ranks :
        /\ RankStep(rank, "worker", "save_json")
        /\ UNCHANGED <<files, writes>>
        /\ RankFrame

\* a plausible slip: the report is saved in a `finally`, also when the worker raised
entrypoint_worker_raises_StillSaves ==
    \E rank \in Ranks :
        /\ RankStep(rank, "worker", "failed")
        /\ files' = [files EXCEPT ![rank] = ReportFile(launches, rank)]
        /\ writes' = [writes EXCEPT ![rank] = @ + 1]
        /\ RankFrame

\* entrypoint(), line 112: the worker raises; the rank process fails
entrypoint_worker_raises ==
    \E rank \in Ranks :
        /\ RankStep(rank, "worker", "failed")
        /\ UNCHANGED <<files, writes>>
        /\ RankFrame

\* entrypoint(), line 112: the worker ends the rank process itself with status 0
\* (SystemExit is not caught by @record), no report is saved
entrypoint_worker_exits ==
    \E rank \in Ranks :
        /\ RankStep(rank, "worker", "exited")
        /\ UNCHANGED <<files, writes>>
        /\ RankFrame

\* entrypoint(), lines 114-115
entrypoint_save_json ==
    \E rank \in Ranks :
        /\ RankStep(rank, "save_json", "destroy_process_group")
        /\ files' = [files EXCEPT ![rank] = ReportFile(launches, rank)]
        /\ writes' = [writes EXCEPT ![rank] = @ + 1]
        /\ RankFrame

\* entrypoint(), lines 117-118
entrypoint_destroy_process_group ==
    \E rank \in Ranks :
        /\ RankStep(rank, "destroy_process_group", "exit")
        /\ UNCHANGED <<files, writes>>
        /\ RankFrame

\* entrypoint(), lines 120-121
entrypoint_exit ==
    \E rank \in Ranks :
        /\ RankStep(rank, "exit", "exited")
        /\ UNCHANGED <<files, writes>>
        /\ RankFrame

ChildFrame ==
    UNCHANGED <<nproc_per_node, files, launches, parentPc, launchResult, reports, reads,
                writes, presentAtJoin, rankLog, notLaunch>>

\* target(), lines 90-93: every rank exited with status 0, the elastic launcher
\* returns and the isolated process exits 0
target_exit ==
    /\ childState = "launched"
    /\ \A r \in Ranks : rankPc[r] = "exited"
    /\ childState' = "exited"
    /\ exitcode' = 0
    /\ UNCHANGED rankPc
    /\ ChildFrame

\* target(), line 90: a rank failed; the elastic launcher stops the ranks still
\* running and raises, the isolated process ends with a non-zero exit code
target_fails ==
    /\ childState = "launched"
    /\ \E r \in Ranks : rankPc[r] = "failed"
    /\ childState' = "exited"
    /\ exitcode' = 1
    /\ rankPc' = [r \in Ranks |-> IF rankPc[r] \in {"exited", "failed"} THEN rankPc[r]
                                   ELSE "terminated"]
    /\ ChildFrame

ParentFrame ==
    UNCHANGED <<nproc_per_node, files, launches, writes, childState, exitcode, rankPc,
                rankLog, notLaunch>>

\* a plausible slip: the parent goes on without waiting for the child
TorchrunLauncher_launch_join_NoWait ==
    /\ parentPc = "join"
    /\ parentPc' = "check"
    /\ presentAtJoin' = {r \in Ranks : files[r].exists}
    /\ UNCHANGED <<launchResult, reports, reads>>
    /\ ParentFrame

\* launch(), line 60: isolated_process.join() returns once the child terminated
TorchrunLauncher_launch_join ==
    /\ parentPc = "join"
    /\ childState = "exited"
    /\ parentPc' = "check"
    /\ presentAtJoin' = {r \in Ranks : files[r].exists}
    /\ UNCHANGED <<launchResult, reports, reads>>
    /\ ParentFrame

\* launch(), lines 62 and 72-75: the existence check and its two error branches
TorchrunLauncher_launch_check ==
    /\ parentPc = "check"
    /\ IF AllRankFilesExist
       THEN /\ parentPc' = "load"
            /\ UNCHANGED launchResult
       ELSE /\ parentPc' = "idle"
            /\ launchResult' =
                   IF exitcode # 0
                   THEN Raise("RuntimeError", "Process exited with non-zero code")
                   ELSE Raise("RuntimeError", "Could not retrieve report from isolated process.")
    /\ UNCHANGED <<reports, reads, presentAtJoin>>
    /\ ParentFrame

\* launch(), lines 64-67: one turn of the list comprehension, in rank order
TorchrunLauncher_launch_load ==
    /\ parentPc = "load"
    /\ Len(reports) < nproc_per_node
    /\ LET rank == Len(reports)
       IN  /\ reports' = Append(reports, BenchmarkReport_from_json(rank))
           /\ reads' = [reads EXCEPT ![rank] = @ + 1]
    /\ UNCHANGED <<parentPc, launchResult, presentAtJoin>>
    /\ ParentFrame

\* launch(), lines 68-77: aggregate, log and return
TorchrunLauncher_launch_return ==
    /\ parentPc = "load"
    /\ Len(reports) = nproc_per_node
    /\ launchResult' = BenchmarkReport_aggregate(reports)
    /\ parentPc' = "idle"
    /\ UNCHANGED <<reports, reads, presentAtJoin>>
    /\ ParentFrame

LaunchNext ==
    \/ TorchrunLauncher_launch_start
    \/ target_elastic_launch
    \/ entrypoint_init_process_group
    \/ entrypoint_worker_returns
    \/ entrypoint_worker_raises
    \/ entrypoint_worker_exits
    \/ entrypoint_save_json
    \/ entrypoint_destroy_process_group
    \/ entrypoint_exit
    \/ target_exit
    \/ target_fails
    \/ TorchrunLauncher_launch_join
    \/ TorchrunLauncher_launch_check
    \/ TorchrunLauncher_launch_load
    \/ TorchrunLauncher_launch_return

SpecLaunch == LaunchInit /\ [][LaunchNext]_vars

-----------------------------------------------------------------------------
(* Constructors and operators of the statistic types
   (trackers/latency.py, trackers/energy.py) *)

\* a Python number / a value that is neither int nor float
Number(x) == [type |-> "number", value |-> x]
NotANumber == [type |-> "str"]
\* isinstance(scalar, (int, float))
IsNumber(x) == x.type = "number"

\* an int index / a slice start:stop
IntIndex(i) == [type |-> "int", value |-> i]
Slice(start, stop) == [type |-> "slice", start |-> start, stop |-> stop]

Min(a, b) == IF a < b THEN a ELSE b

\* values[start:stop] for 0 <= start, 0 <= stop
ListSlice(values, start, stop) == SubSeq(values, start + 1, Min(stop, Len(values)))

\* Latency.__getitem__
Latency__getitem__(self, index) ==
    IF index.type = "slice"
    THEN Latency_from_values(ListSlice(self.values, index.start, index.stop), self.unit)
    ELSE LET n == Len(self.values)
             i == index.value
         IN  IF i >= n \/ i < -n
             THEN Raise("IndexError", "list index out of range")
             ELSE Latency_from_values(<<self.values[(IF i < 0 THEN i + n ELSE i) + 1]>>, self.unit)

\* a plausible slip: the statistics of the original are kept for the shifted values
Latency__sub__KeepsStatistics(self, scalar) ==
    IF ~IsNumber(scalar)
    THEN Raise("ValueError", "Cannot subtract non-scalar value from latency")
    ELSE Latency(self.unit, self.mean, self.stdev,
                 [i \in 1..Len(self.values) |-> RatSub(self.values[i], scalar.value)])

\* Latency.__sub__
Latency__sub__(self, scalar) ==
    IF ~IsNumber(scalar)
    THEN Raise("ValueError", "Cannot subtract non-scalar value from latency")
    ELSE LET latencies == [i \in 1..Len(self.values) |-> RatSub(self.values[i], scalar.value)]
         IN  Latency_from_values(latencies, self.unit)

\* a plausible slip: the division is not guarded
Throughput_from_latency_Unguarded(latency, volume, unit) ==
    IF latency.mean = Zero
    THEN Raise("ZeroDivisionError", "division by zero")
    ELSE Throughput(unit, RatDiv(Rat(volume, 1), latency.mean))

\* Throughput.from_latency
Throughput_from_latency(latency, volume, unit) ==
    LET value == IF RatLt(Zero, latency.mean) THEN RatDiv(Rat(volume, 1), latency.mean) ELSE Zero
    IN  Throughput(unit, value)

\* Efficiency.from_energy
Efficiency_from_energy(energy, volume, unit) ==
    Efficiency(unit, IF RatLt(Zero, energy.total) THEN RatDiv(Rat(volume, 1), energy.total)
                     ELSE Zero)

\* a plausible slip: the gpu and ram differences are passed to each other's keyword
Energy__sub__SwapsGpuRam(self, other) ==
    IF self.unit # other.unit
    THEN Raise("ValueError", "Energy units must match to perform subtraction")
    ELSE Energy(self.unit, RatSub(self.cpu, other.cpu), RatSub(self.gpu, other.gpu),
                RatSub(self.ram, other.ram), RatSub(self.total, other.total))

\* Energy.__sub__
Energy__sub__(self, other) ==
    IF self.unit # other.unit
    THEN Raise("ValueError", "Energy units must match to perform subtraction")
    ELSE Energy(self.unit, RatSub(self.cpu, other.cpu), RatSub(self.ram, other.ram),
                RatSub(self.gpu, other.gpu), RatSub(self.total, other.total))

\* Energy.__truediv__: Python raises ZeroDivisionError for a scalar of 0
Energy__truediv__(self, scalar) ==
    IF scalar = Zero
    THEN Raise("ZeroDivisionError", "division by zero")
    ELSE Energy(self.unit, RatDiv(self.cpu, scalar), RatDiv(self.ram, scalar),
                RatDiv(self.gpu, scalar), RatDiv(self.total, scalar))

\* sample values after a bias was subtracted may be negative or zero
SignedVals == {Rat(k, 1) : k \in (-MaxVal)..MaxVal}
SignedLatencies == {Latency_from_values(v, LATENCY_UNIT) : v \in SeqsUpTo(SignedVals, MaxSamples)}
\* energies after a subtraction: the total may be negative or zero
SignedEnergies == {Energy(ENERGY_UNIT, t, Zero, Zero, t) : t \in SignedVals}
Volumes == 1..MaxVal
\* operands of the Energy operators: the unit is a plain str field
EnergyOperands ==
    {Energy(u, c, Rat(1, 2), g, RatAdd(RatAdd(c, g), Rat(1, 2))) :
        u \in {ENERGY_UNIT, "Wh"}, c \in Vals, g \in {Rat(3 * k, 1) : k \in 1..MaxVal}}

StatOps == {"Latency.from_values", "Latency.__sub__", "Latency.__getitem__",
            "Latency.aggregate", "Throughput.from_latency", "Efficiency.from_energy",
            "Energy.__sub__", "Energy.__truediv__"}

StatArgs(op) ==
    CASE op = "Latency.from_values" ->
             {[values |-> v, unit |-> LATENCY_UNIT] : v \in SeqsUpTo(SignedVals, MaxSamples)}
      [] op = "Latency.__sub__" ->
             {[self |-> l, scalar |-> x] :
                 l \in SignedLatencies,
                 x \in {Number(Rat(k, 1)) : k \in 0..MaxVal} \cup {NotANumber, None}}
      [] op = "Latency.__getitem__" ->
             {[self |-> l, index |-> x] :
                 l \in SignedLatencies,
                 x \in {IntIndex(i) : i \in (-MaxSamples - 1)..MaxSamples}
                       \cup {Slice(a, b) : a \in 0..MaxSamples, b \in 0..MaxSamples}}
      [] op = "Latency.aggregate" ->
             {[latencies |-> ls] : ls \in SeqsUpTo(Latencies, MaxRanks) \ {<<>>}}
      [] op = "Throughput.from_latency" ->
             {[latency |-> l, volume |-> v, unit |-> u] :
                 l \in SignedLatencies, v \in Volumes, u \in ThroughputUnits}
      [] op = "Efficiency.from_energy" ->
             {[energy |-> e, volume |-> v, unit |-> u] :
                 e \in SignedEnergies, v \in Volumes, u \in EfficiencyUnits}
      [] op = "Energy.__sub__" ->
             {[self |-> a, other |-> b] : a \in EnergyOperands, b \in EnergyOperands}
      [] op = "Energy.__truediv__" ->
             {[self |-> a, scalar |-> Rat(k, 1)] : a \in EnergyOperands, k \in 0..MaxVal}

StatInit ==
    /\ statOp \in StatOps
    /\ statArg \in StatArgs(statOp)
    /\ statResult = Pending
    /\ AggIdle
    /\ LatIdle
    /\ LaunchIdle
    /\ EnergyIdle
    /\ ExperimentIdle
    /\ BarrierIdle
    /\ CollectorIdle
    /\ FastInitIdle

CallLatencyFromValues ==
    /\ statOp = "Latency.from_values" /\ statResult = Pending
    /\ statResult' = Latency_from_values(statArg.values, statArg.unit)
    /\ UNCHANGED <<statOp, statArg, notStat>>

CallLatencySub ==
    /\ statOp = "Latency.__sub__" /\ statResult = Pending
    /\ statResult' = Latency__sub__(statArg.self, statArg.scalar)
    /\ UNCHANGED <<statOp, statArg, notStat>>

CallLatencyGetItem ==
    /\ statOp = "Latency.__getitem__" /\ statResult = Pending
    /\ statResult' = Latency__getitem__(statArg.self, statArg.index)
    /\ UNCHANGED <<statOp, statArg, notStat>>

CallLatencyAggregateOfPresent ==
    /\ statOp = "Latency.aggregate" /\ statResult = Pending
    /\ statResult' = Latency_aggregate(statArg.latencies)
    /\ UNCHANGED <<statOp, statArg, notStat>>

CallThroughputFromLatency ==
    /\ statOp = "Throughput.from_latency" /\ statResult = Pending
    /\ statResult' = Throughput_from_latency(statArg.latency, statArg.volume, statArg.unit)
    /\ UNCHANGED <<statOp, statArg, notStat>>

CallEfficiencyFromEnergy ==
    /\ statOp = "Efficiency.from_energy" /\ statResult = Pending
    /\ statResult' = Efficiency_from_energy(statArg.energy, statArg.volume, statArg.unit)
    /\ UNCHANGED <<statOp, statArg, notStat>>

CallEnergySub ==
    /\ statOp = "Energy.__sub__" /\ statResult = Pending
    /\ statResult' = Energy__sub__(statArg.self, statArg.other)
    /\ UNCHANGED <<statOp, statArg, notStat>>

CallEnergyTrueDiv ==
    /\ statOp = "Energy.__truediv__" /\ statResult = Pending
    /\ statResult' = Energy__truediv__(statArg.self, statArg.scalar)
    /\ UNCHANGED <<statOp, statArg, notStat>>

StatNext ==
    \/ CallLatencyFromValues
    \/ CallLatencySub
    \/ CallLatencyGetItem
    \/ CallLatencyAggregateOfPresent
    \/ CallThroughputFromLatency
    \/ CallEfficiencyFromEnergy
    \/ CallEnergySub
    \/ CallEnergyTrueDiv

SpecStat == StatInit /\ [][StatNext]_vars

-----------------------------------------------------------------------------
(* EnergyTracker (trackers/energy.py) *)

POWER_CONSUMPTION_SAMPLING_RATE == 1

\* Python values passed as device_ids or read from the environment
PyInt(n) == [type |-> "int", value |-> n]
PyStr(text) == [type |-> "str", text |-> text]
PyList(items) == [type |-> "list", items |-> items]
PyTuple == [type |-> "tuple"]

\* text.split(",")
str_split(text) ==
    CASE text = "0,1" -> <<"0", "1">>
      [] OTHER -> <<text>>

\* int(token)
int_of(token) ==
    CASE token = "0" -> PyInt(0)
      [] token = "1" -> PyInt(1)
      [] OTHER -> Raise("ValueError", "invalid literal for int() with base 10")

EnergyBackends == {"pytorch", "onnxruntime", "vllm", "tensorrt-llm"}
DeviceIdsArgs ==
    {None, PyStr("0"), PyStr("0,1"), PyStr(""), PyInt(0), PyList(<<>>), PyList(<<PyInt(0)>>),
     PyList(<<PyInt(0), PyInt(1)>>), PyList(<<PyStr("0")>>), PyTuple}
CountryCodes == {None, PyStr("FRA")}
FilePrefixes == {"task", "forward"}

is_engine == enBackend \in {"vllm", "tensorrt-llm"}
is_asynchronous == enBackend = "pytorch" /\ enDevice = "cuda"
is_distributed == enDistributed

\* __init__, lines 120-136: self.device_ids, or the exception raised
EnergyTracker_device_ids(dev, ids) ==
    IF dev = "cuda"
    THEN CASE ids.type = "str" ->
                  LET tokens == str_split(ids.text)
                      ints == [i \in 1..Len(tokens) |-> int_of(tokens[i])]
                  IN  IF \E i \in 1..Len(ints) : IsRaise(ints[i])
                      THEN ints[CHOOSE i \in 1..Len(ints) :
                                   /\ IsRaise(ints[i])
                                   /\ \A j \in 1..(i - 1) : ~IsRaise(ints[j])]
                      ELSE PyList(ints)
           [] ids.type = "int" -> PyList(<<ids>>)
           [] ids.type = "list" -> ids
           [] ids.type = "None" ->
                  Raise("ValueError", "GPU device IDs must be provided for energy tracking on GPUs")
           [] OTHER ->
                  Raise("ValueError",
                        "GPU device IDs must be a string, an integer, or a list of integers")
    ELSE PyList(<<>>)

\* EmissionsTracker(...) as constructed at lines 145-158
EmissionsTracker(gpu_ids) ==
    [type |-> "EmissionsTracker", tracking_mode |-> "machine", gpu_ids |-> gpu_ids,
     allow_multiple_runs |-> TRUE, measure_power_secs |-> POWER_CONSUMPTION_SAMPLING_RATE,
     country_iso_code |-> None]

\* OfflineEmissionsTracker(...) as constructed at lines 168-182
OfflineEmissionsTracker(gpu_ids, country) ==
    [type |-> "OfflineEmissionsTracker", tracking_mode |-> "machine", gpu_ids |-> gpu_ids,
     allow_multiple_runs |-> TRUE, measure_power_secs |-> POWER_CONSUMPTION_SAMPLING_RATE,
     country_iso_code |-> country]

\* a plausible slip: the country of the environment is not looked at
environ_get_country_AlwaysUSA == PyStr("USA")

\* os.environ.get("COUNTRY_ISO_CODE", "USA")
environ_get_country == IF IsNone(COUNTRY_ISO_CODE) THEN PyStr("USA") ELSE COUNTRY_ISO_CODE

\* an emissions record as stop_task() returns it
EmissionsData(k) ==
    LET cpu == Rat(k, 1)
        gpu == IF enDevice = "cuda" THEN Rat(k, 2) ELSE Zero
        ram == Rat(1, 4)
    IN  [type |-> "EmissionsData", energy_consumed |-> RatAdd(RatAdd(cpu, gpu), ram),
         cpu_energy |-> cpu, gpu_energy |-> gpu, ram_energy |-> ram]

EnergyInit ==
    /\ enBackend \in EnergyBackends /\ enDevice \in Devices
    /\ enDeviceIdsArg \in DeviceIdsArgs
    /\ enDistributed \in BOOLEAN /\ codecarbonAvailable \in BOOLEAN
    /\ onlineTrackerFails \in BOOLEAN /\ COUNTRY_ISO_CODE \in CountryCodes
    /\ enPc = "new" /\ enInitResult = Pending
    /\ device_ids = None /\ emission_tracker = None
    /\ total_energy = None /\ cpu_energy = None /\ gpu_energy = None /\ ram_energy = None
    /\ enFilePrefix = "task" /\ artifacts = [f \in FilePrefixes |-> None]
    /\ enSteps = <<>> /\ samplerCalls = <<>> /\ enCompleted = <<>> /\ enEntered = 0
    /\ enPropagated = None /\ energyResult = Pending
    /\ AggIdle
    /\ LatIdle
    /\ LaunchIdle
    /\ StatIdle
    /\ ExperimentIdle
    /\ BarrierIdle
    /\ CollectorIdle
    /\ FastInitIdle

EnergyArgs ==
    <<enBackend, enDevice, enDeviceIdsArg, enDistributed, codecarbonAvailable,
      onlineTrackerFails, COUNTRY_ISO_CODE>>

\* EnergyTracker.__init__
EnergyTracker_init ==
    /\ enPc = "new"
    /\ LET ids == EnergyTracker_device_ids(enDevice, enDeviceIdsArg)
       IN  IF IsRaise(ids)
           THEN /\ enInitResult' = ids
                /\ enPc' = "failed"
                /\ UNCHANGED <<device_ids, emission_tracker>>
           ELSE IF ~codecarbonAvailable
           THEN /\ enInitResult' = Raise("ValueError", "The library codecarbon is required")
                /\ enPc' = "failed"
                /\ UNCHANGED <<device_ids, emission_tracker>>
           ELSE /\ device_ids' = ids
                /\ emission_tracker' =
                       IF onlineTrackerFails
                       THEN OfflineEmissionsTracker(ids, environ_get_country)
                       ELSE EmissionsTracker(ids)
                /\ enInitResult' = [type |-> "EnergyTracker"]
                /\ enPc' = "idle"
    /\ total_energy' = None /\ cpu_energy' = None /\ gpu_energy' = None /\ ram_energy' = None
    /\ UNCHANGED <<EnergyArgs, enFilePrefix, artifacts, enSteps, samplerCalls, enCompleted,
                   enEntered, enPropagated, energyResult, notEnergy>>

\* a plausible slip: the device is synchronized before the barrier
BarrierAndSynchronize_SynchronizeFirst ==
    (IF is_asynchronous THEN <<"synchronize">> ELSE <<>>)
        \o (IF ~is_engine /\ is_distributed THEN <<"barrier">> ELSE <<>>)

\* the barrier and the device synchronize track() makes on both sides of its yield
BarrierAndSynchronize ==
    (IF ~is_engine /\ is_distributed THEN <<"barrier">> ELSE <<>>)
        \o (IF is_asynchronous THEN <<"synchronize">> ELSE <<>>)

\* track() up to its yield
EnergyTracker_track_enter ==
    /\ enPc = "idle"
    /\ enEntered < MaxEnergyRegions
    /\ \E file_prefix \in FilePrefixes : enFilePrefix' = file_prefix
    /\ enSteps' = BarrierAndSynchronize \o <<"start_task", "yield">>
    /\ samplerCalls' = Append(samplerCalls, "start_task")
    /\ enEntered' = enEntered + 1
    /\ enPc' = "body"
    /\ enPropagated' = None
    /\ energyResult' = Pending
    /\ UNCHANGED <<EnergyArgs, enInitResult, device_ids, emission_tracker, total_energy,
                   cpu_energy, gpu_energy, ram_energy, artifacts, enCompleted, notEnergy>>

\* a plausible slip: the energy of the region is added to what the tracker holds
EnergyTracker_track_exit_Accumulates ==
    /\ enPc = "body"
    /\ \E k \in 1..MaxVal :
        LET emission_data == EmissionsData(k)
            Plus(old, x) == IF enCompleted = <<>> THEN x ELSE RatAdd(old, x)
        IN  /\ artifacts' = [artifacts EXCEPT ![enFilePrefix] = emission_data]
            /\ total_energy' = Plus(total_energy, emission_data.energy_consumed)
            /\ cpu_energy' = Plus(cpu_energy, emission_data.cpu_energy)
            /\ gpu_energy' = Plus(gpu_energy, emission_data.gpu_energy)
            /\ ram_energy' = Plus(ram_energy, emission_data.ram_energy)
            /\ enCompleted' = Append(enCompleted, emission_data)
    /\ enSteps' = enSteps \o BarrierAndSynchronize \o <<"stop_task", "write", "update">>
    /\ samplerCalls' = Append(samplerCalls, "stop_task")
    /\ enPc' = "idle"
    /\ energyResult' = Pending
    /\ UNCHANGED <<EnergyArgs, enInitResult, device_ids, emission_tracker, enFilePrefix,
                   enEntered, enPropagated, notEnergy>>

\* the body returns; track() resumes after its yield
EnergyTracker_track_exit ==
    /\ enPc = "body"
    /\ \E k \in 1..MaxVal :
        LET emission_data == EmissionsData(k)
        IN  /\ artifacts' = [artifacts EXCEPT ![enFilePrefix] = emission_data]
            /\ total_energy' = emission_data.energy_consumed
            /\ cpu_energy' = emission_data.cpu_energy
            /\ gpu_energy' = emission_data.gpu_energy
            /\ ram_energy' = emission_data.ram_energy
            /\ enCompleted' = Append(enCompleted, emission_data)
    /\ enSteps' = enSteps \o BarrierAndSynchronize \o <<"stop_task", "write", "update">>
    /\ samplerCalls' = Append(samplerCalls, "stop_task")
    /\ enPc' = "idle"
    /\ energyResult' = Pending
    /\ UNCHANGED <<EnergyArgs, enInitResult, device_ids, emission_tracker, enFilePrefix,
                   enEntered, enPropagated, notEnergy>>

\* a plausible slip: the sampler is stopped and the artifact written in a
\* `finally`, also when the body raised
EnergyTracker_track_raise_StopsAndWrites ==
    /\ enPc = "body"
    /\ \E e \in BodyExceptions : enPropagated' = Raise(e, "body")
    /\ \E k \in 1..MaxVal : artifacts' = [artifacts EXCEPT ![enFilePrefix] = EmissionsData(k)]
    /\ enSteps' = enSteps \o <<"stop_task", "write", "raise">>
    /\ samplerCalls' = Append(samplerCalls, "stop_task")
    /\ enPc' = "idle"
    /\ energyResult' = Pending
    /\ UNCHANGED <<EnergyArgs, enInitResult, device_ids, emission_tracker, total_energy,
                   cpu_energy, gpu_energy, ram_energy, enFilePrefix, enCompleted, enEntered,
                   notEnergy>>

\* the body raises e: the exception is thrown into the generator at its yield,
\* nothing catches it, the code after the yield does not run
EnergyTracker_track_raise ==
    /\ enPc = "body"
    /\ \E e \in BodyExceptions : enPropagated' = Raise(e, "body")
    /\ enSteps' = Append(enSteps, "raise")
    /\ enPc' = "idle"
    /\ energyResult' = Pending
    /\ UNCHANGED <<EnergyArgs, enInitResult, device_ids, emission_tracker, total_energy,
                   cpu_energy, gpu_energy, ram_energy, enFilePrefix, artifacts, samplerCalls,
                   enCompleted, enEntered, notEnergy>>

\* get_energy()
EnergyTracker_get_energy == Energy(ENERGY_UNIT, cpu_energy, ram_energy, gpu_energy, total_energy)

CallGetEnergy ==
    /\ enPc = "idle"
    /\ energyResult' = EnergyTracker_get_energy
    /\ UNCHANGED <<EnergyArgs, enPc, enInitResult, device_ids, emission_tracker, total_energy,
                   cpu_energy, gpu_energy, ram_energy, enFilePrefix, artifacts, enSteps,
                   samplerCalls, enCompleted, enEntered, enPropagated, notEnergy>>

EnergyNext ==
    \/ EnergyTracker_init
    \/ EnergyTracker_track_enter
    \/ EnergyTracker_track_exit
    \/ EnergyTracker_track_raise
    \/ CallGetEnergy

SpecEnergy == EnergyInit /\ [][EnergyNext]_vars

-----------------------------------------------------------------------------
(* run_experiment (experiment.py) under hydra.main *)

\* the calls run_experiment() makes, in the order of the code; clean_again is
\* the backend.clean() of the except clause
CallSites ==
    <<"to_object", "save_config", "backend_allocate", "backend_configure",
      "benchmark_allocate", "benchmark_configure", "run", "save", "clean", "clean_again">>
CallSiteSet == {CallSites[i] : i \in 1..Len(CallSites)}

\* what a call may raise: an Exception, or a BaseException that `except
\* Exception` does not catch
ExceptionKinds == {"Exception", "KeyboardInterrupt"}

\* exit code of the process when a KeyboardInterrupt leaves the interpreter
InterruptExitCodes == {1, 130}

ExperimentInit ==
    /\ expRaising \in {f \in [CallSiteSet -> ExceptionKinds \cup {"none"}] :
                          Cardinality({c \in CallSiteSet : f[c] # "none"}) <= MaxFaults}
    /\ expPc = "to_object" /\ expLog = <<>> /\ expResult = Pending /\ cliExit = None
    /\ AggIdle
    /\ LatIdle
    /\ LaunchIdle
    /\ StatIdle
    /\ EnergyIdle
    /\ BarrierIdle
    /\ CollectorIdle
    /\ FastInitIdle

\* the call at `site` is made: it returns and run_experiment() goes on to
\* `next`, or it raises and the exception goes to `handler`
Call(site, next, handler) ==
    /\ expLog' = Append(expLog, site)
    /\ IF expRaising[site] = "none"
       THEN /\ expPc' = next
            /\ UNCHANGED expResult
       ELSE /\ expPc' = handler
            /\ expResult' = Raise(expRaising[site], site)
    /\ UNCHANGED <<expRaising, cliExit, notExp>>

\* line 98
run_experiment_to_object ==
    /\ expPc = "to_object"
    /\ Call("to_object", "save_config", "propagate")

\* line 101
run_experiment_save_config ==
    /\ expPc = "save_config"
    /\ Call("save_config", "backend_allocate", "propagate")

\* lines 104-110, outside any try
run_experiment_backend_allocate ==
    /\ expPc = "backend_allocate"
    /\ Call("backend_allocate", "backend_configure", "propagate")

\* lines 111-116: an Exception is logged and raised again
run_experiment_backend_configure ==
    /\ expPc = "backend_configure"
    /\ Call("backend_configure", "benchmark_allocate", "propagate")

\* lines 119-120, outside any try
run_experiment_benchmark_allocate ==
    /\ expPc = "benchmark_allocate"
    /\ Call("benchmark_allocate", "benchmark_configure", "propagate")

\* lines 121-125: an Exception is logged and raised again
run_experiment_benchmark_configure ==
    /\ expPc = "benchmark_configure"
    /\ Call("benchmark_configure", "run", "propagate")

\* where an exception raised inside the try of lines 127-133 goes
ExecutionHandler(site) == IF expRaising[site] = "Exception" THEN "clean_again" ELSE "propagate"

\* line 129
run_experiment_run ==
    /\ expPc = "run"
    /\ Call("run", "save", ExecutionHandler("run"))

\* line 131
run_experiment_save ==
    /\ expPc = "save"
    /\ Call("save", "clean", ExecutionHandler("save"))

\* line 133
run_experiment_clean ==
    /\ expPc = "clean"
    /\ Call("clean", "return", ExecutionHandler("clean"))

\* a plausible slip: the except clause raises again without cleaning
run_experiment_except_NoClean ==
    /\ expPc = "clean_again"
    /\ expPc' = "propagate"
    /\ UNCHANGED <<expRaising, expLog, expResult, cliExit, notExp>>

\* lines 134-137: backend.clean(), then `raise e`; an exception of clean()
\* takes the place of e
run_experiment_except ==
    /\ expPc = "clean_again"
    /\ expLog' = Append(expLog, "clean_again")
    /\ expResult' = IF expRaising["clean_again"] = "none" THEN expResult
                    ELSE Raise(expRaising["clean_again"], "clean_again")
    /\ expPc' = "propagate"
    /\ UNCHANGED <<expRaising, cliExit, notExp>>

\* hydra.main: exit code 0 when the task function returned, 1 when it raised
\* an Exception
hydra_main_exit ==
    /\ expPc \in {"return", "propagate"}
    /\ expPc' = "exited"
    /\ IF expPc = "return"
       THEN /\ cliExit' = PyInt(0)
            /\ expResult' = None
       ELSE /\ \E code \in (IF expResult.exc = "Exception" THEN {1} ELSE InterruptExitCodes) :
                   cliExit' = PyInt(code)
            /\ UNCHANGED expResult
    /\ UNCHANGED <<expRaising, expLog, notExp>>

ExperimentNext ==
    \/ run_experiment_to_object
    \/ run_experiment_save_config
    \/ run_experiment_backend_allocate
    \/ run_experiment_backend_configure
    \/ run_experiment_benchmark_allocate
    \/ run_experiment_benchmark_configure
    \/ run_experiment_run
    \/ run_experiment_save
    \/ run_experiment_clean
    \/ run_experiment_except
    \/ hydra_main_exit

SpecExperiment == ExperimentInit /\ [][ExperimentNext]_vars

-----------------------------------------------------------------------------
(* LatencyTracker.track() executed by every rank of one run
   (trackers/latency.py, lines 109-140) *)

TrackerRanks == 0..(world_size - 1)

BarrierInit ==
    /\ initialized \in BOOLEAN
    /\ world_size \in (IF initialized THEN 1..MaxRanks ELSE {1})
    /\ numRegions \in 1..MaxRankRegions
    /\ trkPc = [r \in TrackerRanks |-> "idle"]
    /\ arrived = [r \in TrackerRanks |-> 0]
    /\ entered = [r \in TrackerRanks |-> 0]
    /\ numStarts = [r \in TrackerRanks |-> 0]
    /\ numEnds = [r \in TrackerRanks |-> 0]
    /\ numRaised = [r \in TrackerRanks |-> 0]
    /\ AggIdle
    /\ LatIdle
    /\ LaunchIdle
    /\ StatIdle
    /\ EnergyIdle
    /\ ExperimentIdle
    /\ CollectorIdle
    /\ FastInitIdle

\* a plausible slip: a barrier that lets each rank through on its own
BarrierReleased_NoWait(rank) == arrived[rank] > 0

\* torch.distributed.barrier(): the n-th call of a rank returns once every
\* rank of the group has made its n-th call
BarrierReleased(rank) == \A other \in TrackerRanks : arrived[other] >= arrived[rank]

RunFrame == UNCHANGED <<world_size, initialized, numRegions, notBarrier>>

\* track(), lines 111-112: the rank calls track() and arrives at the barrier
track_entry_barrier ==
    \E rank \in TrackerRanks :
        /\ initialized
        /\ trkPc[rank] = "idle"
        /\ entered[rank] < numRegions
        /\ entered' = [entered EXCEPT ![rank] = @ + 1]
        /\ arrived' = [arrived EXCEPT ![rank] = @ + 1]
        /\ trkPc' = [trkPc EXCEPT ![rank] = "entry_barrier"]
        /\ UNCHANGED <<numStarts, numEnds, numRaised>>
        /\ RunFrame

\* lines 114-117 up to the yield: the barrier, if any, has returned; the start
\* marker is recorded and the body begins
track_record_start ==
    \E rank \in TrackerRanks :
        /\ IF initialized
           THEN /\ trkPc[rank] = "entry_barrier"
                /\ BarrierReleased(rank)
                /\ UNCHANGED entered
           ELSE /\ trkPc[rank] = "idle"
                /\ entered[rank] < numRegions
                /\ entered' = [entered EXCEPT ![rank] = @ + 1]
        /\ numStarts' = [numStarts EXCEPT ![rank] = @ + 1]
        /\ trkPc' = [trkPc EXCEPT ![rank] = "body"]
        /\ UNCHANGED <<arrived, numEnds, numRaised>>
        /\ RunFrame

\* the body returns: the end marker is recorded after the yield, then the rank
\* arrives at the barrier of lines 119-120
track_record_end ==
    \E rank \in TrackerRanks :
        /\ trkPc[rank] = "body"
        /\ numEnds' = [numEnds EXCEPT ![rank] = @ + 1]
        /\ IF initialized
           THEN /\ arrived' = [arrived EXCEPT ![rank] = @ + 1]
                /\ trkPc' = [trkPc EXCEPT ![rank] = "exit_barrier"]
           ELSE /\ trkPc' = [trkPc EXCEPT ![rank] = "idle"]
                /\ UNCHANGED arrived
        /\ UNCHANGED <<entered, numStarts, numRaised>>
        /\ RunFrame

\* lines 119-120: the barrier returns and the rank leaves the region
track_exit_barrier ==
    \E rank \in TrackerRanks :
        /\ trkPc[rank] = "exit_barrier"
        /\ BarrierReleased(rank)
        /\ trkPc' = [trkPc EXCEPT ![rank] = "idle"]
        /\ UNCHANGED <<arrived, entered, numStarts, numEnds, numRaised>>
        /\ RunFrame

\* a plausible slip: the code after the yield runs as if it were in a finally
track_body_raises_Finally ==
    \E rank \in TrackerRanks :
        /\ trkPc[rank] = "body"
        /\ numRaised' = [numRaised EXCEPT ![rank] = @ + 1]
        /\ numEnds' = [numEnds EXCEPT ![rank] = @ + 1]
        /\ IF initialized
           THEN /\ arrived' = [arrived EXCEPT ![rank] = @ + 1]
                /\ trkPc' = [trkPc EXCEPT ![rank] = "exit_barrier"]
           ELSE /\ trkPc' = [trkPc EXCEPT ![rank] = "idle"]
                /\ UNCHANGED arrived
        /\ UNCHANGED <<entered, numStarts>>
        /\ RunFrame

\* the body raises: the exception leaves track() at its yield; no end marker,
\* no barrier call
track_body_raises ==
    \E rank \in TrackerRanks :
        /\ trkPc[rank] = "body"
        /\ numRaised' = [numRaised EXCEPT ![rank] = @ + 1]
        /\ trkPc' = [trkPc EXCEPT ![rank] = "idle"]
        /\ UNCHANGED <<arrived, entered, numStarts, numEnds>>
        /\ RunFrame

BarrierNext ==
    \/ track_entry_barrier
    \/ track_record_start
    \/ track_record_end
    \/ track_exit_barrier
    \/ track_body_raises

SpecBarrier == BarrierInit /\ [][BarrierNext]_vars

\* every rank is a running process: a rank that can take a step takes one
SpecBarrierFair == SpecBarrier /\ WF_vars(BarrierNext)

-----------------------------------------------------------------------------
(* LatencyTrainerCallback and LatencyLogitsProcessor (trackers/latency.py) *)

CollectorClasses == {"LatencyTrainerCallback", "LatencyLogitsProcessor"}

\* self.device == "cuda" and self.backend == "pytorch"
ColIsCudaEventPath == colDevice = "cuda" /\ colBackend = "pytorch"

\* the marker appended at host time t: a recorded torch.cuda.Event, or the
\* float time.perf_counter()
ColMarker(t) == [kind |-> IF ColIsCudaEventPath THEN "cuda_event" ELSE "perf_counter", t |-> t]

\* __init__: the callback starts with no marker, the logits processor calls
\* reset(), which takes one
CollectorInit ==
    /\ colClass \in CollectorClasses
    /\ colDevice \in Devices /\ colBackend \in Backends
    /\ colClock = 0
    /\ events = IF colClass = "LatencyLogitsProcessor" THEN <<ColMarker(0)>> ELSE <<>>
    /\ colCalls = <<"__init__">>
    /\ colResult = Pending
    /\ AggIdle
    /\ LatIdle
    /\ LaunchIdle
    /\ StatIdle
    /\ EnergyIdle
    /\ ExperimentIdle
    /\ BarrierIdle
    /\ FastInitIdle

ColConfig == <<colClass, colDevice, colBackend>>

\* LatencyTrainerCallback.reset
LatencyTrainerCallback_reset ==
    /\ colClass = "LatencyTrainerCallback"
    /\ events' = <<>>
    /\ colCalls' = <<"reset">>
    /\ colResult' = Pending
    /\ UNCHANGED <<ColConfig, colClock, notCol>>

\* a plausible slip: reset() keeps the markers and takes one more
LatencyLogitsProcessor_reset_KeepsMarkers ==
    /\ colClass = "LatencyLogitsProcessor"
    /\ events' = Append(events, ColMarker(colClock))
    /\ colCalls' = <<"reset">>
    /\ colResult' = Pending
    /\ UNCHANGED <<ColConfig, colClock, notCol>>

\* LatencyLogitsProcessor.reset: the list is replaced by one fresh marker
LatencyLogitsProcessor_reset ==
    /\ colClass = "LatencyLogitsProcessor"
    /\ events' = <<ColMarker(colClock)>>
    /\ colCalls' = <<"reset">>
    /\ colResult' = Pending
    /\ UNCHANGED <<ColConfig, colClock, notCol>>

\* some time passes, then the method `call` appends one marker
AppendMarker(call) ==
    /\ \E d \in 1..MaxBody :
        /\ colClock + d <= MaxClock
        /\ colClock' = colClock + d
        /\ events' = Append(events, ColMarker(colClock + d))
    /\ colCalls' = Append(colCalls, call)
    /\ colResult' = Pending
    /\ UNCHANGED <<ColConfig, notCol>>

\* LatencyTrainerCallback.on_step_begin
LatencyTrainerCallback_on_step_begin ==
    /\ colClass = "LatencyTrainerCallback"
    /\ AppendMarker("on_step_begin")

\* LatencyTrainerCallback.on_train_end
LatencyTrainerCallback_on_train_end ==
    /\ colClass = "LatencyTrainerCallback"
    /\ AppendMarker("on_train_end")

\* LatencyLogitsProcessor.__call__
LatencyLogitsProcessor__call__ ==
    /\ colClass = "LatencyLogitsProcessor"
    /\ AppendMarker("__call__")

\* a plausible slip: the first delta is dropped (range(2, len(self.events)))
StepwiseLatency_SkipsFirst(evs, cuda) ==
    Latency_from_values(
        [j \in 1..(IF Len(evs) > 2 THEN Len(evs) - 2 ELSE 0) |->
            IF cuda THEN RatDiv(elapsed_time(evs[j + 1], evs[j + 2]), Rat(1000, 1))
            ELSE Rat(evs[j + 2].t - evs[j + 1].t, 1)],
        LATENCY_UNIT)

\* get_latency() of both classes: one delta per i in range(1, len(self.events))
StepwiseLatency(evs, cuda) ==
    Latency_from_values(
        [j \in 1..(IF Len(evs) > 1 THEN Len(evs) - 1 ELSE 0) |->
            IF cuda THEN RatDiv(elapsed_time(evs[j], evs[j + 1]), Rat(1000, 1))
            ELSE Rat(evs[j + 1].t - evs[j].t, 1)],
        LATENCY_UNIT)

\* LatencyTrainerCallback.get_latency
LatencyTrainerCallback_get_latency ==
    /\ colClass = "LatencyTrainerCallback"
    /\ colResult' = StepwiseLatency(events, ColIsCudaEventPath)
    /\ UNCHANGED <<ColConfig, events, colClock, colCalls, notCol>>

\* LatencyLogitsProcessor.get_latency
LatencyLogitsProcessor_get_latency ==
    /\ colClass = "LatencyLogitsProcessor"
    /\ colResult' = StepwiseLatency(events, ColIsCudaEventPath)
    /\ UNCHANGED <<ColConfig, events, colClock, colCalls, notCol>>

CollectorNext ==
    \/ LatencyTrainerCallback_reset
    \/ LatencyLogitsProcessor_reset
    \/ LatencyTrainerCallback_on_step_begin
    \/ LatencyTrainerCallback_on_train_end
    \/ LatencyLogitsProcessor__call__
    \/ LatencyTrainerCallback_get_latency
    \/ LatencyLogitsProcessor_get_latency

SpecCollector == CollectorInit /\ [][CollectorNext]_vars

-----------------------------------------------------------------------------
(* fast_weights_init (backends/transformers_utils.py) *)

\* a function object, told apart by its qualified name
Function(qualname) == [type |-> "function", qualname |-> qualname]

InitNames ==
    {"normal_", "uniform_", "trunc_normal_", "xavier_normal_", "xavier_uniform_",
     "kaiming_normal_", "kaiming_uniform_", "normal", "uniform", "xavier_normal",
     "xavier_uniform", "kaiming_normal", "kaiming_uniform"}

\* the dict built at import: each name with the torch.nn.init function of then
TORCH_INIT_FUNCTIONS == [name \in InitNames |-> Function("torch.nn.init." \o name)]

fast_random_tensor == Function("fast_random_tensor")

\* the function that fills the tensor when module attribute `name` is called:
\* fast_random_tensor looks torch.nn.init.uniform_ up at call time
InitImplementation(attrs, name) ==
    IF attrs[name] = fast_random_tensor THEN attrs["uniform_"] ELSE attrs[name]

FastInitInit ==
    /\ nn_init = TORCH_INIT_FUNCTIONS
    /\ fwPc = "outside"
    /\ fwScopes = 0
    /\ fwCalls = <<>>
    /\ fwPropagated = None
    /\ AggIdle
    /\ LatIdle
    /\ LaunchIdle
    /\ StatIdle
    /\ EnergyIdle
    /\ ExperimentIdle
    /\ BarrierIdle
    /\ CollectorIdle

\* lines 266-271: the loop that replaces the functions, up to the yield
fast_weights_init_enter ==
    /\ fwPc = "outside"
    /\ fwScopes < MaxScopes
    /\ nn_init' = [name \in InitNames |->
                      IF name # "uniform_" THEN fast_random_tensor ELSE nn_init[name]]
    /\ fwPc' = "inside"
    /\ fwScopes' = fwScopes + 1
    /\ fwPropagated' = None
    /\ UNCHANGED <<fwCalls, notFw>>

\* a caller, inside or outside the scope, calls torch.nn.init.<name>(tensor)
call_torch_nn_init ==
    \E name \in InitNames :
        /\ Len(fwCalls) < MaxBody
        /\ fwCalls' = Append(fwCalls, [name |-> name, at |-> fwPc,
                                       attr |-> nn_init[name],
                                       ran |-> InitImplementation(nn_init, name)])
        /\ UNCHANGED <<nn_init, fwPc, fwScopes, fwPropagated, notFw>>

\* lines 272-276: the body returns, the finally clause restores the functions
fast_weights_init_exit ==
    /\ fwPc = "inside"
    /\ nn_init' = [name \in InitNames |->
                      IF name # "uniform_" THEN TORCH_INIT_FUNCTIONS[name] ELSE nn_init[name]]
    /\ fwPc' = "outside"
    /\ fwPropagated' = None
    /\ UNCHANGED <<fwScopes, fwCalls, notFw>>

\* a plausible slip: the restoring loop follows the yield without try/finally
fast_weights_init_body_raises_NoFinally ==
    \E exc \in BodyExceptions :
        /\ fwPc = "inside"
        /\ fwPc' = "outside"
        /\ fwPropagated' = Raise(exc, "body")
        /\ UNCHANGED <<nn_init, fwScopes, fwCalls, notFw>>

\* lines 272-276: the body raises, the finally clause restores the functions
\* and the exception propagates
fast_weights_init_body_raises ==
    \E exc \in BodyExceptions :
        /\ fwPc = "inside"
        /\ nn_init' = [name \in InitNames |->
                          IF name # "uniform_" THEN TORCH_INIT_FUNCTIONS[name]
                          ELSE nn_init[name]]
        /\ fwPc' = "outside"
        /\ fwPropagated' = Raise(exc, "body")
        /\ UNCHANGED <<fwScopes, fwCalls, notFw>>

FastInitNext ==
    \/ fast_weights_init_enter
    \/ call_torch_nn_init
    \/ fast_weights_init_exit
    \/ fast_weights_init_body_raises

SpecFastInit == FastInitInit /\ [][FastInitNext]_vars

-----------------------------------------------------------------------------
(* Properties of the aggregation rules *)

AggCalled == aggResult # Pending
AllPresent == Len(aggInput) >= 1 /\ \A i \in 1..Len(aggInput) : ~IsNone(aggInput[i])
AllAbsent == \A i \in 1..Len(aggInput) : IsNone(aggInput[i])
Mixed == /\ \E i \in 1..Len(aggInput) : IsNone(aggInput[i])
         /\ \E i \in 1..Len(aggInput) : ~IsNone(aggInput[i])

\* number of samples held by the inputs before input i
RECURSIVE SamplesBefore(_)
SamplesBefore(i) == IF i = 1 THEN 0 ELSE SamplesBefore(i - 1) + Len(aggInput[i - 1].values)

\* C5: Latency.aggregate of N >= 1 present Latency objects holds the inputs'
\* samples concatenated in input order (none lost, duplicated or reordered),
\* and its mean and stdev are those of the concatenation.
C5_LatencyAggregateConcatenates ==
    (aggKind = "Latency" /\ AggCalled /\ AllPresent) =>
        LET r == aggResult
            N == Len(aggInput)
            n == SamplesBefore(N) + Len(aggInput[N].values)
        IN  /\ r.type = "Latency"
            /\ Len(r.values) = n
            /\ \A i \in 1..N : \A j \in 1..Len(aggInput[i].values) :
                   r.values[SamplesBefore(i) + j] = aggInput[i].values[j]
            /\ IF n > 0 THEN RatMul(r.mean, Rat(n, 1)) = SumSeq(r.values) ELSE r.mean = Zero
            /\ IF n > 1
               THEN RatMul(r.stdev.sqrt_of, Rat(n, 1)) =
                        SumSeq([k \in 1..n |-> RatMul(RatSub(r.values[k], r.mean),
                                                      RatSub(r.values[k], r.mean))])
               ELSE r.stdev = PowHalf(Zero)

\* two ranks with different sample counts and different means were aggregated
C5_Witness ==
    /\ aggKind = "Latency" /\ AggCalled /\ AllPresent
    /\ Len(aggInput) = 2
    /\ Len(aggInput[1].values) = 2 /\ Len(aggInput[2].values) = 1
    /\ aggInput[1].mean # aggInput[2].mean
    /\ aggResult.type = "Latency" /\ Len(aggResult.values) = 3

IsMaxOf(x, comp(_)) ==
    /\ \E i \in 1..Len(aggInput) : x = comp(aggInput[i])
    /\ \A i \in 1..Len(aggInput) : ~RatLt(x, comp(aggInput[i]))

\* C6: Energy.aggregate of N >= 1 present Energy objects is an Energy in kWh
\* whose cpu, gpu, ram and total are each the maximum of that component over
\* the inputs, taken independently.
C6_EnergyAggregateMax ==
    (aggKind = "Energy" /\ AggCalled /\ AllPresent) =>
        /\ aggResult.type = "Energy"
        /\ aggResult.unit = "kWh"
        /\ IsMaxOf(aggResult.cpu, LAMBDA e : e.cpu)
        /\ IsMaxOf(aggResult.gpu, LAMBDA e : e.gpu)
        /\ IsMaxOf(aggResult.ram, LAMBDA e : e.ram)
        /\ IsMaxOf(aggResult.total, LAMBDA e : e.total)

\* the maxima come from different inputs
C6_Witness ==
    /\ aggKind = "Energy" /\ AggCalled /\ AllPresent
    /\ Len(aggInput) = 2
    /\ RatLt(aggInput[1].cpu, aggInput[2].cpu)
    /\ RatLt(aggInput[2].gpu, aggInput[1].gpu)
    /\ aggResult.type = "Energy"
    /\ aggResult.cpu = aggInput[2].cpu /\ aggResult.gpu = aggInput[1].gpu

SameUnit == \A i \in 1..Len(aggInput) : aggInput[i].unit = aggInput[1].unit

\* C7: Throughput.aggregate of N >= 1 present Throughput objects of one unit
\* is a Throughput of that unit whose value is the sum of the input values.
C7_ThroughputAggregateSum ==
    (aggKind = "Throughput" /\ AggCalled /\ AllPresent /\ SameUnit) =>
        /\ aggResult.type = "Throughput"
        /\ aggResult.unit = aggInput[1].unit
        /\ aggResult.value = SumSeq([i \in 1..Len(aggInput) |-> aggInput[i].value])

C7_Witness ==
    /\ aggKind = "Throughput" /\ AggCalled /\ AllPresent /\ SameUnit
    /\ Len(aggInput) = 2
    /\ aggInput[1].value = Rat(1, 1) /\ aggInput[2].value = Rat(2, 1)
    /\ aggResult.type = "Throughput" /\ aggResult.value = Rat(3, 1)

\* C8: Efficiency.aggregate of N >= 1 present Efficiency objects is an
\* Efficiency whose value is the sum of the input values divided by N (and is
\* therefore not their sum when N > 1).
C8_EfficiencyAggregateMean ==
    (aggKind = "Efficiency" /\ AggCalled /\ AllPresent) =>
        LET N == Len(aggInput)
            total == SumSeq([i \in 1..N |-> aggInput[i].value])
        IN  /\ aggResult.type = "Efficiency"
            /\ RatMul(aggResult.value, Rat(N, 1)) = total
            /\ N > 1 => aggResult.value # total

C8_Witness ==
    /\ aggKind = "Efficiency" /\ AggCalled /\ AllPresent
    /\ Len(aggInput) = 2
    /\ aggInput[1].value = Rat(1, 1) /\ aggInput[2].value = Rat(2, 1)
    /\ aggResult.type = "Efficiency" /\ aggResult.value = Rat(3, 2)

\* C9: every aggregate() raises, and returns no statistic, when its list holds
\* at least one None together with at least one present entry.
C9_MixedInputRaises ==
    (AggCalled /\ Mixed) => (IsRaise(aggResult) /\ aggResult.exc = "ValueError")

\* a list holding None and a present Energy was rejected
C9_Witness ==
    /\ AggCalled /\ Mixed /\ IsRaise(aggResult)
    /\ aggKind = "Energy"
    /\ Len(aggInput) = 2 /\ IsNone(aggInput[1]) /\ ~IsNone(aggInput[2])

\* C10: on the empty list, and on a list of None only, Latency.aggregate and
\* Energy.aggregate return None without raising; on the empty list
\* Throughput.aggregate and Efficiency.aggregate raise.
C10_EmptyInputAsymmetry ==
    /\ (AggCalled /\ aggKind \in {"Latency", "Energy"} /\ AllAbsent) => aggResult = None
    /\ (AggCalled /\ aggKind \in {"Throughput", "Efficiency"} /\ aggInput = <<>>) =>
           IsRaise(aggResult)

C10_Witness ==
    /\ AggCalled /\ aggKind = "Throughput" /\ aggInput = <<>> /\ IsRaise(aggResult)

-----------------------------------------------------------------------------
(* Properties of LatencyTracker *)

CompletedRegions == SelectSeq(regions, LAMBDA r : r.outcome = "completed")
SomeRegionRaised == \E i \in 1..Len(regions) : regions[i].outcome = "raised"

\* C3: when bodies of track() regions raised since the last reset(), each
\* exception reached the caller unchanged, and get_latency() returns exactly
\* one sample per region that completed normally (its duration) and none for
\* the regions whose body raised.
C3_RaisedRegionIsDiscarded ==
    /\ (trackPc = "idle" /\ regions # <<>> /\ regions[Len(regions)].outcome = "raised") =>
           propagated = Raise(regions[Len(regions)].exc, "body")
    /\ (latResult # Pending /\ SomeRegionRaised) =>
           /\ latResult.type = "Latency"
           /\ Len(latResult.values) = Len(CompletedRegions)
           /\ \A i \in 1..Len(CompletedRegions) :
                  latResult.values[i] = Rat(CompletedRegions[i].end - CompletedRegions[i].start, 1)

\* C13: reset() leaves both marker sequences empty and re-captures the start
\* timestamp; after k track() regions that completed normally since the last
\* reset both marker sequences have length k and get_latency() returns
\* exactly k samples in call order, sample i being end marker i minus start
\* marker i.
C13_SamplesAccumulateBetweenResets ==
    /\ regions = <<>> => (start_events = <<>> /\ end_events = <<>> /\ start_time <= clock)
    /\ trackPc = "idle" =>
           /\ Len(start_events) = Len(CompletedRegions)
           /\ Len(end_events) = Len(CompletedRegions)
    /\ latResult # Pending =>
           /\ latResult.type = "Latency"
           /\ Len(latResult.values) = Len(CompletedRegions)
           /\ \A i \in 1..Len(latResult.values) :
                  latResult.values[i] = Rat(end_events[i].t - start_events[i].t, 1)

Synchronizes == {i \in 1..Len(latOps) : latOps[i].op = "synchronize"}
ElapsedTimeReads == {i \in 1..Len(latOps) : latOps[i].op = "elapsed_time"}

\* C21: device synchronization happens only in get_latency(): on the
\* asynchronous path (pytorch on cuda) it synchronizes on the last start
\* marker and on the last end marker before it reads any elapsed time; track()
\* and get_elapsed_time() never synchronize on either path, and
\* get_elapsed_time() reads and changes none of the accumulated markers.
C21_SynchronizeOnlyInGetLatency ==
    /\ [](/\ (Synchronizes # {}) => (lastCall = "get_latency" /\ IsCudaEventPath)
          /\ (ElapsedTimeReads # {}) =>
                 /\ lastCall = "get_latency" /\ IsCudaEventPath
                 /\ latOps[1] = Op("synchronize", "start_events", Len(start_events))
                 /\ latOps[2] = Op("synchronize", "end_events", Len(end_events))
                 /\ \A i \in ElapsedTimeReads : i > 2
          /\ (lastCall = "get_latency" /\ latResult.type = "Latency" /\ IsCudaEventPath) =>
                 Cardinality(ElapsedTimeReads) = Len(latResult.values)
          /\ (lastCall = "get_elapsed_time") =>
                 /\ latOps = <<Op("perf_counter", "", 0)>>
                 /\ elapsed = Rat(clock - start_time, 1))
    /\ [][lastCall' = "get_elapsed_time" => UNCHANGED <<start_events, end_events>>]_vars

\* pytorch on cuda, two regions completed: get_latency() synchronized on the
\* second start and end markers, then read two elapsed times
C21_Witness ==
    /\ IsCudaEventPath /\ lastCall = "get_latency"
    /\ Len(start_events) = 2 /\ Len(end_events) = 2
    /\ Synchronizes = {1, 2} /\ ElapsedTimeReads = {3, 4}

-----------------------------------------------------------------------------
(* Properties of the torchrun launcher *)

LaunchEnded == parentPc = "idle" /\ launchResult # Pending
ReturnedReport == LaunchEnded /\ launchResult.type = "BenchmarkReport"

\* C1: when a rank report file is missing after the isolated child has
\* terminated, launch() raises and returns no report, whatever the exit code;
\* the parent loads and aggregates only with all R files present, and a
\* returned report is built from exactly one report per rank 0..R-1.
C1_MissingRankFileRaises ==
    /\ (LaunchEnded /\ presentAtJoin # Ranks) => IsRaise(launchResult)
    /\ (parentPc = "load") => presentAtJoin = Ranks
    /\ ReturnedReport =>
           /\ presentAtJoin = Ranks
           /\ Len(launchResult.aggregated) = nproc_per_node
           /\ \A r \in Ranks : launchResult.aggregated[r + 1].rank = r

\* some but not all rank files exist, the child exited 0, launch() raised
C1_Witness ==
    /\ LaunchEnded /\ IsRaise(launchResult)
    /\ exitcode = 0
    /\ presentAtJoin # {} /\ presentAtJoin # Ranks

\* C2: whenever the isolated child ends with a non-zero exit code, launch()
\* raises and returns no report, whatever rank report files are present.
C2_NonZeroExitRaises ==
    (LaunchEnded /\ exitcode # 0) => IsRaise(launchResult)

\* C4: in every launch() that returns a report, each rank report file the
\* parent loaded was written exactly once, during this launch, by the rank of
\* its index, and was read exactly once by the parent.
C4_FilesWrittenOnceReadOnce ==
    ReturnedReport =>
        \A r \in Ranks :
            /\ writes[r] = 1
            /\ files[r] = ReportFile(launches, r)
            /\ launchResult.aggregated[r + 1] = [launch |-> launches, rank |-> r]
            /\ reads[r] = 1

RankEnded(r) == rankPc[r] \in {"exited", "failed", "terminated"}
ChildTerminated == childState = "exited" /\ \A r \in Ranks : RankEnded(r)

\* C18: the parent never checks for, or reads, a rank report file before the
\* isolated child and every rank process it launched have terminated: the
\* join precedes the existence check, which precedes every load and the
\* aggregation, so no file is observed while a rank is still writing it.
C18_JoinBeforeCheckAndLoad ==
    /\ (parentPc \in {"check", "load"} \/ LaunchEnded) => ChildTerminated
    /\ (\E r \in Ranks : reads[r] > 0) =>
           /\ ChildTerminated
           /\ presentAtJoin = Ranks
           /\ parentPc \in {"load", "idle"}
    /\ (reports # <<>>) => (\A r \in Ranks : rankPc[r] # "save_json")
    /\ ReturnedReport => (\A r \in Ranks : reads[r] = 1)

\* the parent is loading the second of two files, both ranks have exited
C18_Witness ==
    /\ nproc_per_node = 2 /\ parentPc = "load" /\ Len(reports) = 1
    /\ reads[0] = 1 /\ reads[1] = 0
    /\ ChildTerminated /\ writes[0] = 1 /\ writes[1] = 1

EntrypointOrder ==
    <<"init_process_group", "worker", "save_json", "destroy_process_group", "exit">>

\* C19: each rank goes through init process group, worker, write its report
\* file, destroy process group, exit 0, in this order; it writes its file only
\* after its worker returned a report, a rank whose worker raised writes no
\* file in that launch, and the isolated child exits 0 only after every rank
\* has finished.
C19_RankStepOrder ==
    /\ \A r \in Ranks :
           /\ Len(rankLog[r]) <= Len(EntrypointOrder)
           /\ rankLog[r] = SubSeq(EntrypointOrder, 1, Len(rankLog[r]))
           /\ writes[r] = IF Len(rankLog[r]) >= 3 THEN 1 ELSE 0
           /\ writes[r] > 0 => files[r] = ReportFile(launches, r)
           /\ rankPc[r] = "failed" => (writes[r] = 0 /\ rankLog[r] = SubSeq(EntrypointOrder, 1, 2))
           /\ Len(rankLog[r]) = Len(EntrypointOrder) => rankPc[r] = "exited"
    /\ (launches > 0 /\ childState = "exited" /\ exitcode = 0) =>
           \A r \in Ranks : rankPc[r] = "exited"

\* of two ranks one went through all five steps and the worker of the other
\* raised: one file written, none by the failed rank
C19_Witness ==
    /\ nproc_per_node = 2
    /\ rankLog[0] = EntrypointOrder /\ rankPc[0] = "exited" /\ writes[0] = 1
    /\ rankPc[1] = "failed" /\ writes[1] = 0
    /\ childState = "exited" /\ exitcode # 0

-----------------------------------------------------------------------------
(* Properties of the statistic constructors and operators *)

StatCalled == statResult # Pending

\* mean and stdev of r are those of r.values: the mean of the samples, the
\* population standard deviation for two or more samples, 0 otherwise
MeanStdevOfValues(r) ==
    LET n == Len(r.values)
    IN  /\ IF n > 0 THEN RatMul(r.mean, Rat(n, 1)) = SumSeq(r.values) ELSE r.mean = Zero
        /\ IF n > 1
           THEN RatMul(r.stdev.sqrt_of, Rat(n, 1)) =
                    SumSeq([k \in 1..n |-> RatMul(RatSub(r.values[k], r.mean),
                                                  RatSub(r.values[k], r.mean))])
           ELSE r.stdev = PowHalf(Zero)

\* C11: Latency.from_values returns a Latency holding exactly the given values
\* with mean = sum/len and the population stdev (stdev 0 for one sample, mean 0
\* and stdev 0 for none, no exception); every Latency returned by aggregate,
\* __sub__ and __getitem__ satisfies the same relation.
C11_FromValuesStatistics ==
    /\ (StatCalled /\ statOp = "Latency.from_values") =>
           /\ statResult.type = "Latency"
           /\ statResult.values = statArg.values
    /\ (StatCalled /\ statResult.type = "Latency") => MeanStdevOfValues(statResult)

\* two different samples: a mean between them and a stdev that is not 0
C11_Witness ==
    /\ StatCalled /\ statOp = "Latency.from_values"
    /\ statArg.values = <<Rat(1, 1), Rat(2, 1)>>
    /\ statResult.mean = Rat(3, 2)
    /\ statResult.stdev = PowHalf(Rat(1, 4))

\* C12 as stated: from_latency returns 0 when latency.mean is 0 and
\* volume / latency.mean for every other mean; from_energy likewise on
\* energy.total; neither raises.
C12_AsStated ==
    /\ (StatCalled /\ statOp = "Throughput.from_latency") =>
           /\ statResult.type = "Throughput"
           /\ statResult.value = IF statArg.latency.mean = Zero THEN Zero
                                 ELSE RatDiv(Rat(statArg.volume, 1), statArg.latency.mean)
    /\ (StatCalled /\ statOp = "Efficiency.from_energy") =>
           /\ statResult.type = "Efficiency"
           /\ statResult.value = IF statArg.energy.total = Zero THEN Zero
                                 ELSE RatDiv(Rat(statArg.volume, 1), statArg.energy.total)

\* C12 (amended): from_latency never raises; it returns 0 when latency.mean
\* is 0 or negative and volume / latency.mean when it is positive;
\* from_energy likewise returns 0 when energy.total is 0 or negative and
\* volume / energy.total when it is positive.
C12_GuardedDivision ==
    /\ (StatCalled /\ statOp = "Throughput.from_latency") =>
           /\ statResult.type = "Throughput"
           /\ statResult.unit = statArg.unit
           /\ statResult.value = IF RatLt(Zero, statArg.latency.mean)
                                 THEN RatDiv(Rat(statArg.volume, 1), statArg.latency.mean)
                                 ELSE Zero
    /\ (StatCalled /\ statOp = "Efficiency.from_energy") =>
           /\ statResult.type = "Efficiency"
           /\ statResult.unit = statArg.unit
           /\ statResult.value = IF RatLt(Zero, statArg.energy.total)
                                 THEN RatDiv(Rat(statArg.volume, 1), statArg.energy.total)
                                 ELSE Zero

\* a latency of mean 0 gave throughput 0
C12_Witness ==
    /\ StatCalled /\ statOp = "Throughput.from_latency"
    /\ statArg.latency.mean = Zero
    /\ statResult.type = "Throughput" /\ statResult.value = Zero

\* C14: Latency.__sub__ with a numeric bias returns a Latency of the same
\* unit whose i-th value is the i-th original value minus the bias, with mean
\* and stdev recomputed from the new values, the original keeping its values
\* and statistics; with a non-numeric operand it raises.
C14_SubtractBias ==
    (StatCalled /\ statOp = "Latency.__sub__") =>
        IF IsNumber(statArg.scalar)
        THEN /\ statResult.type = "Latency"
             /\ statResult.unit = statArg.self.unit
             /\ Len(statResult.values) = Len(statArg.self.values)
             /\ \A i \in 1..Len(statArg.self.values) :
                    RatAdd(statResult.values[i], statArg.scalar.value) = statArg.self.values[i]
             /\ MeanStdevOfValues(statResult)
             /\ MeanStdevOfValues(statArg.self)
        ELSE IsRaise(statResult) /\ statResult.exc = "ValueError"

\* bias 1 subtracted from two samples
C14_Witness ==
    /\ StatCalled /\ statOp = "Latency.__sub__"
    /\ statArg.self.values = <<Rat(1, 1), Rat(2, 1)>>
    /\ statArg.scalar = Number(Rat(1, 1))
    /\ statResult.type = "Latency"
    /\ statResult.values = <<Zero, Rat(1, 1)>>
    /\ statResult.mean = Rat(1, 2)

-----------------------------------------------------------------------------
(* Properties of the EnergyTracker *)

EnergyTrackerConstructed == enPc \in {"idle", "body"}

\* C15: EnergyTracker construction for device cuda without device ids fails
\* with a configuration error; every tracker constructed for cuda holds a
\* non-empty list of integer device ids; every tracker constructed for another
\* device holds the empty id list, whatever ids were passed.
C15_DeviceIdsAfterConstruction ==
    /\ (enPc # "new" /\ enDevice = "cuda" /\ IsNone(enDeviceIdsArg)) =>
           /\ enPc = "failed"
           /\ IsRaise(enInitResult) /\ enInitResult.exc = "ValueError"
    /\ (EnergyTrackerConstructed /\ enDevice = "cuda") =>
           /\ device_ids.type = "list"
           /\ device_ids.items # <<>>
           /\ \A i \in 1..Len(device_ids.items) : device_ids.items[i].type = "int"
    /\ (EnergyTrackerConstructed /\ enDevice # "cuda") => device_ids = PyList(<<>>)

\* C16: get_energy() called when no track() region has completed returns,
\* without raising, an Energy in kWh whose cpu, gpu, ram and total are all
\* absent; after one or more completed regions it returns the four values of
\* the emissions record of the most recently completed region.
C16_GetEnergyReturnsLastRegion ==
    (energyResult # Pending) =>
        /\ energyResult.type = "Energy"
        /\ energyResult.unit = "kWh"
        /\ IF enCompleted = <<>>
           THEN /\ IsNone(energyResult.cpu) /\ IsNone(energyResult.gpu)
                /\ IsNone(energyResult.ram) /\ IsNone(energyResult.total)
           ELSE LET last == enCompleted[Len(enCompleted)]
                IN  /\ energyResult.cpu = last.cpu_energy
                    /\ energyResult.gpu = last.gpu_energy
                    /\ energyResult.ram = last.ram_energy
                    /\ energyResult.total = last.energy_consumed

\* two regions completed with different records, get_energy() gave the second
C16_Witness ==
    /\ energyResult # Pending
    /\ Len(enCompleted) = 2
    /\ enCompleted[1] # enCompleted[2]
    /\ energyResult.total = enCompleted[2].energy_consumed

\* the barrier and synchronize calls the run's configuration asks for
ExpectedGuards ==
    (IF enDistributed /\ enBackend \notin {"vllm", "tensorrt-llm"} THEN <<"barrier">> ELSE <<>>)
        \o (IF enBackend = "pytorch" /\ enDevice = "cuda" THEN <<"synchronize">> ELSE <<>>)
RegionCompleted == enSteps # <<>> /\ enSteps[Len(enSteps)] = "update"
RegionRaised == enSteps # <<>> /\ enSteps[Len(enSteps)] = "raise"
NoEnergyBodyRaised == enEntered = Len(enCompleted) + (IF enPc = "body" THEN 1 ELSE 0)
EnergyFields == <<total_energy, cpu_energy, gpu_energy, ram_energy>>

\* C24: track() makes, in this order, the entry barrier (iff the run is
\* multi-rank and the backend is not vllm / tensorrt-llm), the device
\* synchronize (iff pytorch on cuda), the sampler's start_task, then the body;
\* on normal exit the barrier and the synchronize under the same conditions,
\* then stop_task, the artifact write and the update of the four fields. Over
\* normally completed regions start_task and stop_task strictly alternate,
\* starting with start_task.
C24_TrackStepOrder ==
    /\ enPc = "body" => enSteps = ExpectedGuards \o <<"start_task", "yield">>
    /\ RegionCompleted =>
           enSteps = ExpectedGuards \o <<"start_task", "yield">>
                         \o ExpectedGuards \o <<"stop_task", "write", "update">>
    /\ NoEnergyBodyRaised =>
           /\ Len(samplerCalls) = enEntered + Len(enCompleted)
           /\ \A i \in 1..Len(samplerCalls) :
                  samplerCalls[i] = IF i % 2 = 1 THEN "start_task" ELSE "stop_task"

\* pytorch on cuda in a multi-rank run: a region completed with barrier and
\* synchronize on both sides, after an earlier completed region
C24_Witness ==
    /\ enBackend = "pytorch" /\ enDevice = "cuda" /\ enDistributed
    /\ RegionCompleted /\ Len(enSteps) = 9
    /\ samplerCalls = <<"start_task", "stop_task", "start_task", "stop_task">>

\* C25: the sampler is stopped, the artifact written and the energy fields
\* updated only on normal exit of track(): if the body raises, the exception
\* propagates, no artifact is written for that region and the four fields
\* stay as they were before the region.
C25_RaisedRegionChangesNothing ==
    /\ [](RegionRaised =>
             /\ IsRaise(enPropagated) /\ enPropagated.msg = "body"
             /\ \A i \in 1..Len(enSteps) : enSteps[i] \notin {"stop_task", "write", "update"}
             /\ samplerCalls[Len(samplerCalls)] = "start_task")
    /\ [][(enPc = "body" /\ enPc' = "idle" /\ IsRaise(enPropagated'))
              => UNCHANGED <<EnergyFields, artifacts, samplerCalls>>]_vars
    /\ [][(enPc = "idle" /\ enPc' = "body") => UNCHANGED <<EnergyFields, artifacts>>]_vars

\* one region completed under prefix "task", then the body of a region under
\* prefix "forward" raised: no forward artifact, the fields of the first region
C25_Witness ==
    /\ RegionRaised /\ Len(enCompleted) = 1
    /\ enFilePrefix = "forward"
    /\ artifacts["forward"] = None /\ artifacts["task"] = enCompleted[1]
    /\ total_energy = enCompleted[1].energy_consumed

-----------------------------------------------------------------------------
(* Properties of run_experiment *)

Called(site) == \E i \in 1..Len(expLog) : expLog[i] = site
\* the call at `site` was made and raised
RaisedAt(site) == Called(site) /\ expRaising[site] # "none"
Returned(site) == Called(site) /\ expRaising[site] = "none"
CliExited == expPc = "exited"
ExitCode == cliExit.value
\* backend.clean() was called, as the last call of run_experiment()
CleanedLast == expLog # <<>> /\ expLog[Len(expLog)] \in {"clean", "clean_again"}

\* C17 as stated: the CLI exits with code 1 whenever backend configuration,
\* benchmark configuration, benchmark.run or benchmark.save raises and with
\* code 0 when none of them raises; backend.clean() is invoked after a
\* successful run-and-save and after a run or save that raised, before the
\* exception is raised again.
C17_AsStated ==
    CliExited =>
        /\ IF \E site \in {"backend_configure", "benchmark_configure", "run", "save"} :
                  RaisedAt(site)
           THEN ExitCode = 1 /\ IsRaise(expResult)
           ELSE ExitCode = 0
        /\ (Returned("run") /\ Returned("save")) => Called("clean")
        /\ (RaisedAt("run") \/ RaisedAt("save")) => CleanedLast

\* C17 (amended): the CLI exits with a non-zero code (1 when the exception
\* that leaves run_experiment is an Exception) whenever any call of
\* run_experiment raises: the conversion or the saving of the configuration,
\* the allocation or the configuration of the backend or of the benchmark,
\* run, save or backend.clean(); it exits
\* with code 0 exactly when none of them raises. backend.clean() is invoked
\* after a successful run-and-save, and after a run or save that raised an
\* Exception, as the last call before the exception is raised again; an
\* exception that is not an Exception (KeyboardInterrupt) propagates without
\* backend.clean().
C17_ExitCodeAndClean ==
    CliExited =>
        /\ IF \E site \in CallSiteSet : RaisedAt(site)
           THEN /\ ExitCode # 0
                /\ IsRaise(expResult)
                /\ expResult.exc = "Exception" => ExitCode = 1
           ELSE /\ ExitCode = 0
                /\ expLog = SubSeq(CallSites, 1, 9)
        /\ (Returned("run") /\ Returned("save")) => Called("clean")
        /\ \A site \in {"run", "save"} :
               RaisedAt(site) =>
                   IF expRaising[site] = "Exception"
                   THEN CleanedLast /\ expLog[Len(expLog)] = "clean_again"
                   ELSE ~Called("clean") /\ ~Called("clean_again")

\* benchmark.save() raised an Exception: backend.clean() ran once, in the except
\* clause, and the CLI exited with code 1
C17_Witness ==
    /\ CliExited /\ ExitCode = 1
    /\ RaisedAt("save") /\ expRaising["save"] = "Exception"
    /\ expLog = SubSeq(CallSites, 1, 8) \o <<"clean_again">>
    /\ expResult = Raise("Exception", "save")

-----------------------------------------------------------------------------
(* Properties of track() in a multi-rank run *)

NoBodyRaised == \A r \in TrackerRanks : numRaised[r] = 0
AllRegionsLeft == \A r \in TrackerRanks : trkPc[r] = "idle" /\ numEnds[r] = numRegions

\* the barrier calls of a rank: one before each start marker, one after each
\* end marker, none when the process group is not initialized
BarrierPerMarker ==
    \A r \in TrackerRanks :
        /\ arrived[r] = IF initialized
                        THEN numStarts[r] + numEnds[r]
                                 + (IF trkPc[r] = "entry_barrier" THEN 1 ELSE 0)
                        ELSE 0
        /\ trkPc[r] = "entry_barrier" => numStarts[r] = entered[r] - 1
        /\ trkPc[r] = "exit_barrier" => numEnds[r] = entered[r] - numRaised[r]

\* no rank has the start marker of its k-th region before every rank has
\* entered its k-th region
StartTogether ==
    \A r \in TrackerRanks, other \in TrackerRanks : entered[other] >= numStarts[r]

\* C20: in a multi-rank run track() makes one barrier call before recording
\* the start marker and one after recording the end marker, and none in a
\* single-process run; when every rank executes the same number of regions
\* and no body raises, no rank records the start marker of its k-th region
\* before every rank has entered its k-th region, and every rank eventually
\* leaves every region.
C20_BarriersAlignRanks ==
    /\ [](BarrierPerMarker /\ (NoBodyRaised /\ initialized => StartTogether))
    /\ <>(~NoBodyRaised \/ AllRegionsLeft)

\* two ranks: rank 0 is in the body of its second region, rank 1 has entered
\* its second region and still waits at the entry barrier
C20_Witness ==
    /\ initialized /\ world_size = 2 /\ NoBodyRaised
    /\ trkPc[0] = "body" /\ numStarts[0] = 2
    /\ trkPc[1] = "entry_barrier" /\ entered[1] = 2 /\ numStarts[1] = 1

\* the step in which the body of rank r raises
BodyRaisesOn(r) == numRaised'[r] = numRaised[r] + 1

\* rank r waits at the exit barrier of a region whose body completed, and
\* rank o raised in a region of the same or an earlier index without having
\* made a barrier call since
RaisedAndNotBack(r, o) ==
    /\ trkPc[r] = "exit_barrier" /\ numRaised[r] = 0
    /\ numRaised[o] > 0 /\ trkPc[o] = "idle" /\ entered[o] <= entered[r]

\* C28: in a multi-rank run, when the body of track() raises on one rank, that
\* rank records no end marker and does not arrive at the exit barrier of that
\* region, while its start marker stays; a rank whose body completed stays at
\* the exit barrier until the raising rank has made a later barrier call.
C28_RaisingRankLeavesOthersBlocked ==
    /\ [][\A r \in TrackerRanks :
            BodyRaisesOn(r) =>
                /\ trkPc[r] = "body" /\ trkPc'[r] = "idle"
                /\ numEnds'[r] = numEnds[r]
                /\ arrived'[r] = arrived[r]
                /\ numStarts'[r] = numStarts[r] /\ numStarts[r] > numEnds[r]]_vars
    /\ [](\A r \in TrackerRanks, o \in TrackerRanks :
            RaisedAndNotBack(r, o) => arrived[o] < arrived[r])
    /\ [][\A r \in TrackerRanks :
            (trkPc[r] = "exit_barrier" /\ trkPc'[r] # "exit_barrier") =>
                \A o \in TrackerRanks : arrived[o] >= arrived[r]]_vars

\* two ranks in their first region: the body of rank 0 raised, rank 1 recorded
\* its end marker and waits at the exit barrier, one barrier call ahead
C28_Witness ==
    /\ initialized /\ world_size = 2
    /\ numRaised[0] = 1 /\ trkPc[0] = "idle" /\ entered[0] = 1
    /\ numStarts[0] = 1 /\ numEnds[0] = 0 /\ arrived[0] = 1
    /\ numRaised[1] = 0 /\ trkPc[1] = "exit_barrier" /\ entered[1] = 1
    /\ numEnds[1] = 1 /\ arrived[1] = 2

\* C27: a - b for two Energy objects of the same unit returns a new Energy
\* whose cpu, gpu, ram and total are the component-wise differences; when the
\* units differ it raises and gives no result; a / s returns a new Energy with
\* all four components divided by s and the unit kept (s = 0 raises Python's
\* ZeroDivisionError); neither operator modifies its operands.
C27_EnergyArithmetic ==
    /\ []((StatCalled /\ statOp = "Energy.__sub__") =>
             IF statArg.self.unit = statArg.other.unit
             THEN /\ statResult.type = "Energy"
                  /\ statResult.unit = statArg.self.unit
                  /\ RatAdd(statResult.cpu, statArg.other.cpu) = statArg.self.cpu
                  /\ RatAdd(statResult.gpu, statArg.other.gpu) = statArg.self.gpu
                  /\ RatAdd(statResult.ram, statArg.other.ram) = statArg.self.ram
                  /\ RatAdd(statResult.total, statArg.other.total) = statArg.self.total
             ELSE IsRaise(statResult) /\ statResult.exc = "ValueError")
    /\ []((StatCalled /\ statOp = "Energy.__truediv__") =>
             IF statArg.scalar # Zero
             THEN /\ statResult.type = "Energy"
                  /\ statResult.unit = statArg.self.unit
                  /\ RatMul(statResult.cpu, statArg.scalar) = statArg.self.cpu
                  /\ RatMul(statResult.gpu, statArg.scalar) = statArg.self.gpu
                  /\ RatMul(statResult.ram, statArg.scalar) = statArg.self.ram
                  /\ RatMul(statResult.total, statArg.scalar) = statArg.self.total
             ELSE IsRaise(statResult) /\ statResult.exc = "ZeroDivisionError")
    /\ [][(statOp = "Energy.__sub__" \/ statOp = "Energy.__truediv__") => UNCHANGED statArg]_vars

\* two energies in kWh with different cpu and gpu: the four differences
C27_Witness ==
    /\ StatCalled /\ statOp = "Energy.__sub__"
    /\ statArg.self = Energy(ENERGY_UNIT, Rat(2, 1), Rat(1, 2), Rat(6, 1), Rat(17, 2))
    /\ statArg.other = Energy(ENERGY_UNIT, Rat(1, 1), Rat(1, 2), Rat(3, 1), Rat(9, 2))
    /\ statResult = Energy(ENERGY_UNIT, Rat(1, 1), Zero, Rat(3, 1), Rat(4, 1))

-----------------------------------------------------------------------------
(* Properties of the step-wise collectors *)

LastColCall == colCalls[Len(colCalls)]
\* the calls since the last reset() that took a marker
MarkerCalls == SelectSeq(colCalls, LAMBDA c : c \notin {"reset", "__init__"})
StepBegins == SelectSeq(MarkerCalls, LAMBDA c : c = "on_step_begin")

\* C22: for both step-wise collectors get_latency() on a collector holding N
\* markers returns exactly N-1 samples (none when N <= 1), sample i being
\* marker i+1 minus marker i; k on_step_begin calls followed by one
\* on_train_end after a reset yield exactly k samples.
C22_ConsecutiveDeltas ==
    (colResult # Pending) =>
        /\ colResult.type = "Latency"
        /\ Len(colResult.values) = (IF Len(events) <= 1 THEN 0 ELSE Len(events) - 1)
        /\ \A i \in 1..Len(colResult.values) :
               colResult.values[i] = Rat(events[i + 1].t - events[i].t, 1)
        /\ (/\ colClass = "LatencyTrainerCallback"
            /\ colCalls[1] = "reset"
            /\ MarkerCalls = StepBegins \o <<"on_train_end">>) =>
               Len(colResult.values) = Len(StepBegins)

\* after a reset two on_step_begin and one on_train_end: two samples, with
\* different durations
C22_Witness ==
    /\ colResult # Pending
    /\ colClass = "LatencyTrainerCallback"
    /\ colCalls = <<"reset", "on_step_begin", "on_step_begin", "on_train_end">>
    /\ Len(colResult.values) = 2
    /\ colResult.values[1] # colResult.values[2]

\* C23 as stated: for both step-wise collectors, immediately after reset()
\* the collector holds no marker, whatever markers it held before.
C23_AsStated ==
    (LastColCall = "reset") => events = <<>>

\* C23 (amended): reset() drops every marker the collector held; immediately
\* after it a LatencyTrainerCallback holds no marker and a
\* LatencyLogitsProcessor holds exactly one marker, taken by reset() itself.
C23_ResetDropsMarkers ==
    (LastColCall = "reset") =>
        IF colClass = "LatencyTrainerCallback"
        THEN events = <<>>
        ELSE events = <<ColMarker(colClock)>>

\* a logits processor that had taken markers up to time 2 was reset
C23_Witness ==
    /\ LastColCall = "reset"
    /\ colClass = "LatencyLogitsProcessor"
    /\ colClock >= 2
    /\ events = <<ColMarker(colClock)>>

\* C29: inside the scope of fast_weights_init every function of
\* TORCH_INIT_FUNCTIONS except uniform_ is replaced by fast_random_tensor;
\* after the scope exits, normally or through an exception raised in the body,
\* every one of them is again the original captured at import; uniform_ is
\* never replaced.
C29_ScopedSwapRestores ==
    /\ nn_init["uniform_"] = TORCH_INIT_FUNCTIONS["uniform_"]
    /\ fwPc = "inside" =>
           \A name \in InitNames \ {"uniform_"} : nn_init[name] = fast_random_tensor
    /\ fwPc = "outside" => nn_init = TORCH_INIT_FUNCTIONS
    /\ \A i \in 1..Len(fwCalls) :
           /\ fwCalls[i].at = "inside" =>
                  fwCalls[i].ran = TORCH_INIT_FUNCTIONS["uniform_"]
           /\ fwCalls[i].at = "outside" =>
                  fwCalls[i].ran = TORCH_INIT_FUNCTIONS[fwCalls[i].name]

\* a body that called torch.nn.init.normal_ and then raised: the scope was
\* left through the exception, and a call of normal_ made afterwards runs the
\* original again
C29_Witness ==
    /\ fwPc = "outside" /\ fwScopes = 1 /\ IsRaise(fwPropagated)
    /\ Len(fwCalls) = 2
    /\ fwCalls[1].name = "normal_" /\ fwCalls[1].at = "inside"
    /\ fwCalls[1].attr = fast_random_tensor
    /\ fwCalls[2].name = "normal_" /\ fwCalls[2].at = "outside"
    /\ fwCalls[2].ran = TORCH_INIT_FUNCTIONS["normal_"]

====
